---- MODULE Spec2Model ----
(***************************************************************************)
(* Grid-wanderer tactical simulation: the pathfinder, the diplomacy        *)
(* ledger, the supply network and the combat resolver, modelled as state   *)
(* machines whose actions are the public operations of the classes.        *)
(***************************************************************************)
EXTENDS Integers, Sequences, FiniteSets, TLC

VARIABLES
    tiles,          \* GameMap.tiles: position -> terrain type
    mapWidth,       \* GameMap.width
    mapHeight,      \* GameMap.height
    rangeCall,      \* arguments of the findMovementRange call made, or NoCall
    rangeResult,    \* the Map findMovementRange returned
    pathCall,       \* arguments of the findPath call made, or NoCall
    pathResult,     \* the Path | null findPath returned
    relations,      \* DiplomacySystem.relations: relation key -> score
    actionHistory,  \* DiplomacySystem.actionHistory
    actionListeners,\* DiplomacySystem.actionListeners
    notified,       \* the listener invocations of the last modifyRelation, in order
    dipCall,        \* the last call made on the ledger, or NoCall
    units,          \* the units in play: id -> UnitData with its position
    bases,          \* SupplySystem.bases
    hasSupply,      \* CombatSystem.supplySystem is set
    hasDiplomacy,   \* CombatSystem.diplomacySystem is set
    combatCall,     \* arguments of the last resolveCombat call, or NoCall
    combatResult,   \* the CombatResult it returned
    supplyCall,     \* arguments of the last call made on the supply network, or NoCall
    supplyResult,   \* what that call returned
    turnCall,       \* arguments of the last processUnitTurn call, or NoCall
    turnResult,     \* the UnitActionResult it returned
    calls,          \* number of operations performed so far
    frame,          \* the locals of the PathFinder call in progress, or NoCall
    timeouts,       \* the callbacks setTimeout holds, in the order they fire
    turn,           \* GameManager: the turn counter
    playerTurn,     \* GameManager: the player is to act
    selectedUnit,   \* GameManager: the Unit selected, <<>> for null
    selectedTile,   \* GameManager: the position of the tile selected, <<>> for null
    currentPath,    \* GameManager: the path or attack line shown, <<>> for null
    workQueue,      \* BehaviorTreeWorker._workQueue
    isRunning,      \* BehaviorTreeWorker._isRunning
    invoked         \* the node executions and callback invocations made, in order

pathVars == <<tiles, mapWidth, mapHeight, rangeCall, rangeResult, pathCall, pathResult>>
dipVars == <<relations, actionHistory, actionListeners, notified, dipCall>>
combatVars == <<units, bases, hasSupply, hasDiplomacy, combatCall, combatResult>>
supplyVars == <<supplyCall, supplyResult>>
turnVars == <<turnCall, turnResult>>
gameVars == <<turn, playerTurn, selectedUnit, selectedTile, currentPath>>
workerVars == <<workQueue, isRunning, invoked>>
appVars == <<frame, timeouts, gameVars, workerVars>>
vars == <<pathVars, dipVars, combatVars, supplyVars, turnVars, calls, appVars>>

(***************************************************************************)
(* Bounds of the model                                                     *)
(***************************************************************************)
MapW == 3
MapH == 2
MaxRough == 1
MaxBudget == 3
MaxCalls == 2

(***************************************************************************)
(* Terrain (TerrainTypes) and movement types (UnitTypes)                   *)
(***************************************************************************)
TerrainType == {"water", "plains", "forest", "mountain"}

TerrainTiles ==
    [t \in TerrainType |->
        CASE t = "water"    -> [movementCost |-> 99, isWalkable |-> FALSE, isFlyable |-> TRUE]
          [] t = "plains"   -> [movementCost |-> 1,  isWalkable |-> TRUE,  isFlyable |-> TRUE]
          [] t = "forest"   -> [movementCost |-> 2,  isWalkable |-> TRUE,  isFlyable |-> TRUE]
          [] t = "mountain" -> [movementCost |-> 3,  isWalkable |-> TRUE,  isFlyable |-> TRUE]]

MovementType == {"ground", "air"}

(***************************************************************************)
(* Grid geometry (gridUtils)                                               *)
(***************************************************************************)
Pos == (0 .. MapW - 1) \X (0 .. MapH - 1)

Abs(n) == IF n < 0 THEN -n ELSE n

manhattanDistance(a, b) == Abs(a[1] - b[1]) + Abs(a[2] - b[2])

\* up, right, down, left, keeping those inside the grid
getNeighbors(position, width, height) ==
    LET directions == << <<0, -1>>, <<1, 0>>, <<0, 1>>, <<-1, 0>> >>
        newPos(i) == <<position[1] + directions[i][1], position[2] + directions[i][2]>>
        inGrid(p) == p[1] >= 0 /\ p[1] < width /\ p[2] >= 0 /\ p[2] < height
    IN  SelectSeq([i \in 1 .. 4 |-> newPos(i)], inGrid)

(***************************************************************************)
(* PathFinder                                                              *)
(***************************************************************************)
\* the optional maxMovementPoints argument left out
NoCap == -1

\* Blocked with the walkable and flyable flags exchanged
BlockedFlagsSwapped(movementType, terrain) ==
    \/ movementType = "ground" /\ ~TerrainTiles[terrain].isFlyable
    \/ movementType = "air" /\ ~TerrainTiles[terrain].isWalkable

\* a step onto the tile is refused for this movement type
Blocked(movementType, terrain) ==
    \/ movementType = "ground" /\ ~TerrainTiles[terrain].isWalkable
    \/ movementType = "air" /\ ~TerrainTiles[terrain].isFlyable

\* StepCost charging every tile the airborne cost
StepCostFlat(movementType, terrain) == 1

StepCost(movementType, terrain) ==
    IF movementType = "air" THEN 1 ELSE TerrainTiles[terrain].movementCost

\* a PathNode; parent is <<>> for null, <<node>> otherwise
PathNode(position, gCost, hCost, parent) ==
    [position |-> position, gCost |-> gCost, hCost |-> hCost,
     fCost |-> gCost + hCost, parent |-> parent]

PathNull == [isNull |-> TRUE, path |-> <<>>, cost |-> 0]

RECURSIVE InsertByF(_, _)
InsertByF(sorted, node) ==
    IF sorted = <<>> THEN <<node>>
    ELSE IF Head(sorted).fCost <= node.fCost
         THEN <<Head(sorted)>> \o InsertByF(Tail(sorted), node)
         ELSE <<node>> \o sorted

\* openSet.sort((a, b) => a.fCost - b.fCost): a stable sort.  Here and in the
\* loops below a value handed on to the next round is drawn from a one-element
\* set, which computes it once.
RECURSIVE SortByF(_, _)
SortByF(done, rest) ==
    IF rest = <<>> THEN done
    ELSE CHOOSE result \in {SortByF(inserted, Tail(rest)) :
                                inserted \in {InsertByF(done, Head(rest))}} : TRUE

\* reconstructPath stopping before the start node
reconstructPathWithoutStart(endNode) ==
    LET RECURSIVE chain(_)
        chain(node) ==
            IF node.parent = <<>> THEN <<>>
            ELSE Append(chain(node.parent[1]), node.position)
    IN  [isNull |-> FALSE, path |-> chain(endNode), cost |-> endNode.gCost]

reconstructPath(endNode) ==
    LET RECURSIVE chain(_)
        chain(node) ==
            IF node.parent = <<>> THEN <<node.position>>
            ELSE Append(chain(node.parent[1]), node.position)
    IN  [isNull |-> FALSE, path |-> chain(endNode), cost |-> endNode.gCost]

\* index of the open node at this position, 0 when there is none
OpenIndex(openSet, position) ==
    LET hits == {i \in 1 .. Len(openSet) : openSet[i].position = position}
    IN  IF hits = {} THEN 0 ELSE CHOOSE i \in hits : \A j \in hits : i <= j

\* VisitNeighbor without the closed-set test
VisitNeighborReopening(openSet, closedSet, currentNode, neighborPos, endPos, movementType, maxMovementPoints) ==
    LET terrain == tiles[neighborPos]
        gCost == currentNode.gCost + StepCost(movementType, terrain)
        k == OpenIndex(openSet, neighborPos)
    IN  IF Blocked(movementType, terrain) THEN openSet
        ELSE IF maxMovementPoints # NoCap /\ gCost > maxMovementPoints THEN openSet
        ELSE IF k = 0
             THEN Append(openSet, PathNode(neighborPos, gCost,
                             manhattanDistance(neighborPos, endPos), <<currentNode>>))
        ELSE IF gCost < openSet[k].gCost
             THEN [openSet EXCEPT ![k] = [@ EXCEPT !.gCost = gCost,
                                                    !.fCost = gCost + openSet[k].hCost,
                                                    !.parent = <<currentNode>>]]
        ELSE openSet

\* the body of the neighbour loop for one neighbour: the open set afterwards
VisitNeighbor(openSet, closedSet, currentNode, neighborPos, endPos, movementType, maxMovementPoints) ==
    LET terrain == tiles[neighborPos]
        gCost == currentNode.gCost + StepCost(movementType, terrain)
        k == OpenIndex(openSet, neighborPos)
    IN  IF Blocked(movementType, terrain) \/ neighborPos \in closedSet THEN openSet
        ELSE IF maxMovementPoints # NoCap /\ gCost > maxMovementPoints THEN openSet
        ELSE IF k = 0
             THEN Append(openSet, PathNode(neighborPos, gCost,
                             manhattanDistance(neighborPos, endPos), <<currentNode>>))
        ELSE IF gCost < openSet[k].gCost
             THEN [openSet EXCEPT ![k] = [@ EXCEPT !.gCost = gCost,
                                                    !.fCost = gCost + openSet[k].hCost,
                                                    !.parent = <<currentNode>>]]
        ELSE openSet

RECURSIVE VisitNeighbors(_, _, _, _, _, _, _)
VisitNeighbors(openSet, closedSet, currentNode, neighbors, endPos, movementType, maxMovementPoints) ==
    IF neighbors = <<>> THEN openSet
    ELSE CHOOSE result \in
            {VisitNeighbors(visited, closedSet, currentNode, Tail(neighbors), endPos,
                            movementType, maxMovementPoints) :
                visited \in {VisitNeighbor(openSet, closedSet, currentNode, Head(neighbors),
                                           endPos, movementType, maxMovementPoints)}} : TRUE

\* the while loop of findPath; closedSet is read only through has(), so its keys are kept
RECURSIVE SearchLoop(_, _, _, _, _)
SearchLoop(openSet, closedSet, endPos, movementType, maxMovementPoints) ==
    IF openSet = <<>> THEN PathNull
    ELSE LET sorted == SortByF(<<>>, openSet)
             currentNode == Head(sorted)
         IN  IF currentNode.position = endPos THEN reconstructPath(currentNode)
             ELSE CHOOSE found \in
                    {SearchLoop(nextOpen, nextClosed, endPos, movementType,
                                maxMovementPoints) :
                        nextOpen \in
                            {VisitNeighbors(Tail(sorted),
                                 closedSet \cup {currentNode.position}, currentNode,
                                 getNeighbors(currentNode.position, mapWidth, mapHeight),
                                 endPos, movementType, maxMovementPoints)},
                        nextClosed \in {closedSet \cup {currentNode.position}}} : TRUE

\* findPath without the equal-positions return
findPathNoEqualCheck(startPos, endPos, movementType, maxMovementPoints) ==
    SearchLoop(<<PathNode(startPos, 0, manhattanDistance(startPos, endPos), <<>>)>>,
               {}, endPos, movementType, maxMovementPoints)

findPath(startPos, endPos, movementType, maxMovementPoints) ==
    IF startPos = endPos THEN [isNull |-> FALSE, path |-> <<>>, cost |-> 0]
    ELSE SearchLoop(<<PathNode(startPos, 0, manhattanDistance(startPos, endPos), <<>>)>>,
                    {}, endPos, movementType, maxMovementPoints)

\* RangeVisit that keeps the first cost found for a tile
RangeVisitFirstCost(reachableTiles, queue, pos, neighborPos, movementType, movementPoints) ==
    LET terrain == tiles[neighborPos]
        costToEnter == reachableTiles[pos] + StepCost(movementType, terrain)
    IN  IF Blocked(movementType, terrain) THEN <<reachableTiles, queue>>
        ELSE IF neighborPos \notin DOMAIN reachableTiles /\ costToEnter <= movementPoints
             THEN << (neighborPos :> costToEnter) @@ reachableTiles,
                     IF movementPoints - costToEnter > 0
                     THEN Append(queue, [pos |-> neighborPos,
                                         remainingPoints |-> movementPoints - costToEnter])
                     ELSE queue >>
        ELSE <<reachableTiles, queue>>

\* the body of findMovementRange's neighbour loop: <<reachableTiles, queue>> afterwards
RangeVisit(reachableTiles, queue, pos, neighborPos, movementType, movementPoints) ==
    LET terrain == tiles[neighborPos]
        costToEnter == reachableTiles[pos] + StepCost(movementType, terrain)
    IN  IF Blocked(movementType, terrain) THEN <<reachableTiles, queue>>
        ELSE IF /\ (neighborPos \notin DOMAIN reachableTiles
                       \/ costToEnter < reachableTiles[neighborPos])
                /\ costToEnter <= movementPoints
             THEN << (neighborPos :> costToEnter) @@ reachableTiles,
                     IF movementPoints - costToEnter > 0
                     THEN Append(queue, [pos |-> neighborPos,
                                         remainingPoints |-> movementPoints - costToEnter])
                     ELSE queue >>
        ELSE <<reachableTiles, queue>>

RECURSIVE RangeVisits(_, _, _, _, _, _)
RangeVisits(reachableTiles, queue, pos, neighbors, movementType, movementPoints) ==
    IF neighbors = <<>> THEN <<reachableTiles, queue>>
    ELSE LET next == RangeVisit(reachableTiles, queue, pos, Head(neighbors),
                                movementType, movementPoints)
         IN  RangeVisits(next[1], next[2], pos, Tail(neighbors), movementType, movementPoints)

RECURSIVE RangeLoop(_, _, _, _)
RangeLoop(reachableTiles, queue, movementType, movementPoints) ==
    IF queue = <<>> THEN reachableTiles
    ELSE LET next == RangeVisits(reachableTiles, Tail(queue), Head(queue).pos,
                                 getNeighbors(Head(queue).pos, mapWidth, mapHeight),
                                 movementType, movementPoints)
         IN  RangeLoop(next[1], next[2], movementType, movementPoints)

findMovementRange(position, movementType, movementPoints) ==
    RangeLoop((position :> 0),
              <<[pos |-> position, remainingPoints |-> movementPoints]>>,
              movementType, movementPoints)

(***************************************************************************)
(* DiplomacySystem                                                         *)
(***************************************************************************)
Faction == {"player", "enemy", "neutral"}

\* position of the faction names in the order Array.prototype.sort gives them
FactionRank == [f \in Faction |->
                  CASE f = "enemy" -> 1 [] f = "neutral" -> 2 [] f = "player" -> 3]

\* getRelationKey keeping the factions in the order given
getRelationKeyAsGiven(factionA, factionB) == <<factionA, factionB>>

getRelationKey(factionA, factionB) ==
    IF FactionRank[factionA] <= FactionRank[factionB]
    THEN <<factionA, factionB>> ELSE <<factionB, factionA>>

Max(a, b) == IF a >= b THEN a ELSE b
Min(a, b) == IF a <= b THEN a ELSE b

\* setRelation storing the value as given
setRelationUnclamped(rel, factionA, factionB, value) ==
    (getRelationKey(factionA, factionB) :> value) @@ rel

\* the relations map after setRelation
setRelation(rel, factionA, factionB, value) ==
    (getRelationKey(factionA, factionB) :> Max(-100, Min(100, value))) @@ rel

\* getRelation without the same-faction return
getRelationStoredOnly(rel, factionA, factionB) ==
    IF getRelationKey(factionA, factionB) \in DOMAIN rel
    THEN rel[getRelationKey(factionA, factionB)]
    ELSE 0

getRelation(rel, factionA, factionB) ==
    IF factionA = factionB THEN 100
    ELSE IF getRelationKey(factionA, factionB) \in DOMAIN rel
         THEN rel[getRelationKey(factionA, factionB)]
         ELSE 0

\* notifyListeners calling the listeners last registered first
notifyListenersReversed(listeners, action, rel, history) ==
    [i \in 1 .. Len(listeners) |->
        [listener |-> listeners[Len(listeners) + 1 - i], action |-> action,
         relations |-> rel, actionHistory |-> history]]

\* the calls notifyListeners makes, in order; each listener is handed the action
\* and runs against the ledger as it is at that moment
notifyListeners(listeners, action, rel, history) ==
    [i \in 1 .. Len(listeners) |->
        [listener |-> listeners[i], action |-> action,
         relations |-> rel, actionHistory |-> history]]

\* modifyRelation adding the magnitude of the delta
modifyRelationMagnitude(rel, history, factionA, factionB, delta, actionType, description) ==
    LET currentRelation == getRelation(rel, factionA, factionB)
        newRelation == Max(-100, Min(100, currentRelation + Abs(delta)))
        stored == setRelation(rel, factionA, factionB, newRelation)
        action == [type |-> actionType, description |-> description,
                   value |-> delta, origin |-> factionA, target |-> factionB]
        pushed == Append(history, action)
    IN  [relations |-> stored,
         actionHistory |-> pushed,
         notified |-> notifyListeners(actionListeners, action, stored, pushed)]

\* the ledger after modifyRelation: the relations map, the history, and the
\* listener calls made before it returns
modifyRelation(rel, history, factionA, factionB, delta, actionType, description) ==
    LET currentRelation == getRelation(rel, factionA, factionB)
        newRelation == Max(-100, Min(100, currentRelation + delta))
        stored == setRelation(rel, factionA, factionB, newRelation)
        action == [type |-> actionType, description |-> description,
                   value |-> delta, origin |-> factionA, target |-> factionB]
        pushed == Append(history, action)
    IN  [relations |-> stored,
         actionHistory |-> pushed,
         notified |-> notifyListeners(actionListeners, action, stored, pushed)]

\* getRelationshipStatus with the war threshold exclusive
getRelationshipStatusStrictWar(rel, factionA, factionB) ==
    LET score == getRelation(rel, factionA, factionB)
    IN  IF score < -60 THEN "war"
        ELSE IF score <= -20 THEN "hostile"
        ELSE IF score < 20 THEN "neutral"
        ELSE IF score < 60 THEN "friendly"
        ELSE "allied"

getRelationshipStatus(rel, factionA, factionB) ==
    LET score == getRelation(rel, factionA, factionB)
    IN  IF score <= -60 THEN "war"
        ELSE IF score <= -20 THEN "hostile"
        ELSE IF score < 20 THEN "neutral"
        ELSE IF score < 60 THEN "friendly"
        ELSE "allied"

\* the relations map the constructor leaves
NewRelations ==
    setRelation(setRelation(setRelation(<<>>, "player", "enemy", -80),
                            "player", "neutral", 0),
                "enemy", "neutral", -10)

NoCall == [op |-> "none"]

\* no PathFinder call in progress, no timer pending, the game as GameManager
\* starts it and a worker with nothing queued
AppIdle ==
    /\ frame = NoCall
    /\ timeouts = <<>>
    /\ turn = 1
    /\ playerTurn = TRUE
    /\ selectedUnit = <<>>
    /\ selectedTile = <<>>
    /\ currentPath = <<>>
    /\ workQueue = <<>>
    /\ isRunning = FALSE
    /\ invoked = <<>>

(***************************************************************************)
(* Pathfinder queries on a generated map                                   *)
(***************************************************************************)
\* maps the generator can produce, with at most MaxRough tiles that are not plains
Maps == {m \in [Pos -> TerrainType] : Cardinality({p \in Pos : m[p] # "plains"}) <= MaxRough}

InitPath ==
    /\ tiles \in Maps
    /\ mapWidth = MapW
    /\ mapHeight = MapH
    /\ rangeCall = NoCall
    /\ rangeResult = <<>>
    /\ pathCall = NoCall
    /\ pathResult = PathNull
    /\ relations = NewRelations
    /\ actionHistory = <<>>
    /\ actionListeners = <<>>
    /\ notified = <<>>
    /\ dipCall = NoCall
    /\ units = <<>>
    /\ bases = <<>>
    /\ hasSupply = FALSE
    /\ hasDiplomacy = FALSE
    /\ combatCall = NoCall
    /\ combatResult = NoCall
    /\ supplyCall = NoCall
    /\ supplyResult = NoCall
    /\ turnCall = NoCall
    /\ turnResult = NoCall
    /\ calls = 0
    /\ AppIdle

CallFindMovementRange ==
    /\ rangeCall = NoCall
    /\ pathCall = NoCall
    /\ \E position \in Pos, movementType \in MovementType, movementPoints \in 0 .. MaxBudget :
          /\ rangeCall' = [op |-> "findMovementRange", position |-> position,
                           movementType |-> movementType, movementPoints |-> movementPoints]
          /\ rangeResult' = findMovementRange(position, movementType, movementPoints)
    /\ UNCHANGED <<appVars, tiles, mapWidth, mapHeight, pathCall, pathResult, dipVars, combatVars, supplyVars, turnVars, calls>>

\* the caps a path query is made with: none, or the whole movement allowance
PathCaps == {NoCap, MaxBudget}

CallFindPath ==
    /\ rangeCall = NoCall
    /\ pathCall = NoCall
    /\ \E startPos \in Pos, endPos \in Pos, movementType \in MovementType,
          maxMovementPoints \in PathCaps :
          /\ pathCall' = [op |-> "findPath", startPos |-> startPos, endPos |-> endPos,
                          movementType |-> movementType,
                          maxMovementPoints |-> maxMovementPoints]
          /\ pathResult' = findPath(startPos, endPos, movementType, maxMovementPoints)
    /\ UNCHANGED <<appVars, tiles, mapWidth, mapHeight, rangeCall, rangeResult, dipVars, combatVars, supplyVars, turnVars, calls>>

NextPath == CallFindMovementRange \/ CallFindPath

SpecPath == InitPath /\ [][NextPath]_vars

(***************************************************************************)
(* The ledger driven through its public operations                         *)
(***************************************************************************)
\* values given to setRelation and deltas given to modifyRelation
SetValues == {-150, -60, -20, 19, 59, 150}
Deltas == {-15, 1, 250}

\* the action type recorded with a delta
DeltaType(delta) == IF delta = -15 THEN "ATTACK_UNIT" ELSE "CUSTOM"

PlainMap == [p \in Pos |-> "plains"]

InitDip ==
    /\ tiles = PlainMap
    /\ mapWidth = MapW
    /\ mapHeight = MapH
    /\ rangeCall = NoCall
    /\ rangeResult = <<>>
    /\ pathCall = NoCall
    /\ pathResult = PathNull
    /\ relations = NewRelations
    /\ actionHistory = <<>>
    /\ actionListeners = <<>>
    /\ notified = <<>>
    /\ dipCall = NoCall
    /\ units = <<>>
    /\ bases = <<>>
    /\ hasSupply = FALSE
    /\ hasDiplomacy = FALSE
    /\ combatCall = NoCall
    /\ combatResult = NoCall
    /\ supplyCall = NoCall
    /\ supplyResult = NoCall
    /\ turnCall = NoCall
    /\ turnResult = NoCall
    /\ calls = 0
    /\ AppIdle

SetRelation ==
    /\ calls < MaxCalls
    /\ \E factionA \in Faction, factionB \in Faction, value \in SetValues :
          /\ relations' = setRelation(relations, factionA, factionB, value)
          /\ dipCall' = [op |-> "setRelation", factionA |-> factionA,
                         factionB |-> factionB, value |-> value]
    /\ calls' = calls + 1
    /\ UNCHANGED <<appVars, actionHistory, actionListeners, notified, pathVars, combatVars, supplyVars, turnVars>>

ModifyRelation ==
    /\ calls < MaxCalls
    /\ \E factionA \in Faction, factionB \in Faction, delta \in Deltas :
          LET after == modifyRelation(relations, actionHistory, factionA, factionB,
                                      delta, DeltaType(delta), "described")
          IN  /\ relations' = after.relations
              /\ actionHistory' = after.actionHistory
              /\ notified' = after.notified
              /\ dipCall' = [op |-> "modifyRelation", factionA |-> factionA,
                             factionB |-> factionB, value |-> delta]
    /\ calls' = calls + 1
    /\ UNCHANGED <<appVars, actionListeners, pathVars, combatVars, supplyVars, turnVars>>

NextDip == SetRelation \/ ModifyRelation

SpecDip == InitDip /\ [][NextDip]_vars

(***************************************************************************)
(* The ledger with clients that register listeners                         *)
(***************************************************************************)
\* the callbacks a client registers
ListenerIds == {"l1", "l2"}

\* no call has been made on the relations yet: the clients are still setting up
Registering == dipCall.op \in {"none", "addActionListener", "removeActionListener"}

addActionListener(listeners, callback) == Append(listeners, callback)

removeActionListener(listeners, callback) ==
    SelectSeq(listeners, LAMBDA listener : listener # callback)

AddActionListener ==
    /\ Registering
    /\ Len(actionListeners) < Cardinality(ListenerIds)
    /\ \E callback \in ListenerIds :
          /\ actionListeners' = addActionListener(actionListeners, callback)
          /\ dipCall' = [op |-> "addActionListener", listener |-> callback]
    /\ UNCHANGED <<appVars, relations, actionHistory, notified, pathVars, combatVars, supplyVars, turnVars, calls>>

RemoveActionListener ==
    /\ Registering
    /\ \E callback \in ListenerIds :
          /\ actionListeners' = removeActionListener(actionListeners, callback)
          /\ dipCall' = [op |-> "removeActionListener", listener |-> callback]
    /\ UNCHANGED <<appVars, relations, actionHistory, notified, pathVars, combatVars, supplyVars, turnVars, calls>>

NextListeners == AddActionListener \/ RemoveActionListener \/ ModifyRelation

SpecListeners == InitDip /\ [][NextListeners]_vars

(***************************************************************************)
(* Ledger claims                                                           *)
(***************************************************************************)
\* C1: after any sequence of setRelation and modifyRelation calls every stored
\* relation score, and every value getRelation returns, lies in [-100, 100].
C1_ScoresWithinBounds ==
    /\ \A key \in DOMAIN relations : relations[key] >= -100 /\ relations[key] <= 100
    /\ \A factionA \in Faction, factionB \in Faction :
          /\ getRelation(relations, factionA, factionB) >= -100
          /\ getRelation(relations, factionA, factionB) <= 100

\* a call whose value or sum lies outside the range and is stored at a limit
C1_Witness ==
    /\ dipCall.op = "modifyRelation"
    /\ dipCall.value = 250
    /\ dipCall.factionA # dipCall.factionB
    /\ relations[getRelationKey(dipCall.factionA, dipCall.factionB)] = 100
    /\ \E key \in DOMAIN relations : relations[key] = -100

\* the tier the claim assigns to a score
TierOfScore(score) ==
    CASE score <= -60 -> "war"
      [] score > -60 /\ score <= -20 -> "hostile"
      [] score > -20 /\ score < 20 -> "neutral"
      [] score >= 20 /\ score < 60 -> "friendly"
      [] score >= 60 -> "allied"

\* C2: for distinct factions the status is war iff score <= -60, hostile iff
\* -60 < score <= -20, neutral iff -20 < score < 20, friendly iff
\* 20 <= score < 60, allied iff score >= 60; so -60 is war, -59 hostile,
\* 19 neutral, 20 friendly, 59 friendly and 60 allied.
C2_StatusTiers ==
    \A factionA \in Faction, factionB \in Faction :
        factionA # factionB =>
            LET score == getRelation(relations, factionA, factionB)
                status == getRelationshipStatus(relations, factionA, factionB)
            IN  /\ status = TierOfScore(score)
                /\ score = -60 => status = "war"
                /\ score = -59 => status = "hostile"
                /\ score = 19 => status = "neutral"
                /\ score = 20 => status = "friendly"
                /\ score = 59 => status = "friendly"
                /\ score = 60 => status = "allied"

\* a pair set to 59 has just been moved to 60 and reads allied
C2_Witness ==
    /\ dipCall.op = "modifyRelation"
    /\ dipCall.value = 1
    /\ dipCall.factionA # dipCall.factionB
    /\ getRelation(relations, dipCall.factionA, dipCall.factionB) = 60
    /\ getRelationshipStatus(relations, dipCall.factionA, dipCall.factionB) = "allied"

\* C16: every change of a stored score made through the public operations
\* appends exactly one DiplomaticAction (type, description, delta, origin,
\* target) to the history, and the history only ever grows at its end.
C16_EveryMutationAppendsOneAction ==
    [][ /\ relations' # relations =>
              /\ Len(actionHistory') = Len(actionHistory) + 1
              /\ DOMAIN actionHistory'[Len(actionHistory')]
                    = {"type", "description", "value", "origin", "target"}
        /\ Len(actionHistory') >= Len(actionHistory)
        /\ SubSeq(actionHistory', 1, Len(actionHistory)) = actionHistory ]_vars

\* the listeners named in a sequence of listener calls
Invoked(invocations) == [i \in 1 .. Len(invocations) |-> invocations[i].listener]

C18_SameFactionAlwaysAllied ==
    \A factionA \in Faction :
        /\ getRelation(relations, factionA, factionA) = 100
        /\ getRelationshipStatus(relations, factionA, factionA) = "allied"

\* a score of -100 has been stored for a faction paired with itself
C18_Witness ==
    /\ dipCall.op = "setRelation"
    /\ dipCall.factionA = dipCall.factionB
    /\ dipCall.value = -150
    /\ relations[<<dipCall.factionA, dipCall.factionA>>] = -100
    /\ getRelation(relations, dipCall.factionA, dipCall.factionA) = 100

\* C19: relations are keyed by the unordered pair: getRelation(A, B) equals
\* getRelation(B, A) for all factions, at most one score is stored per pair,
\* and a write to (A, B) is the same write as to (B, A).
C19_RelationsAreSymmetric ==
    /\ \A factionA \in Faction, factionB \in Faction :
          /\ getRelation(relations, factionA, factionB)
                = getRelation(relations, factionB, factionA)
          /\ \A value \in SetValues :
                setRelation(relations, factionA, factionB, value)
                    = setRelation(relations, factionB, factionA, value)
          /\ \A delta \in Deltas :
                modifyRelation(relations, actionHistory, factionA, factionB,
                               delta, "CUSTOM", "described").relations
                    = modifyRelation(relations, actionHistory, factionB, factionA,
                                     delta, "CUSTOM", "described").relations
    /\ \A key \in DOMAIN relations : <<key[2], key[1]>> \in DOMAIN relations => key[1] = key[2]

\* the pair was written as (player, enemy) and then as (enemy, player); both
\* orders read the one score the second write left
C19_Witness ==
    /\ dipCall.op = "setRelation"
    /\ dipCall.factionA = "enemy"
    /\ dipCall.factionB = "player"
    /\ dipCall.value = 19
    /\ calls = 2
    /\ getRelation(relations, "player", "enemy") = 19
    /\ getRelation(relations, "enemy", "player") = 19

(***************************************************************************)
(* Reference notions the pathfinder claims are stated against: passability *)
(* and step cost read off the terrain table, and the least cost of a walk. *)
(***************************************************************************)
RefPassable(movementType, p) == movementType = "air" \/ tiles[p] # "water"

RefCost(movementType, p) ==
    IF movementType = "air" THEN 1
    ELSE CASE tiles[p] = "plains" -> 1
           [] tiles[p] = "forest" -> 2
           [] tiles[p] = "mountain" -> 3
           [] OTHER -> 99

RefAdjacent(a, b) ==
    \/ a[1] = b[1] /\ (a[2] = b[2] + 1 \/ b[2] = a[2] + 1)
    \/ a[2] = b[2] /\ (a[1] = b[1] + 1 \/ b[1] = a[1] + 1)

SetMin(S) == CHOOSE m \in S : \A n \in S : m <= n

\* the pairs <<tile, cost>> of the walks from start that cost at most budget
RECURSIVE WalkCosts(_, _, _)
WalkCosts(reached, movementType, budget) ==
    LET steps == {x \in reached \X Pos :
                    /\ RefAdjacent(x[1][1], x[2])
                    /\ RefPassable(movementType, x[2])
                    /\ x[1][2] + RefCost(movementType, x[2]) <= budget}
        more == reached \cup {<<x[2], x[1][2] + RefCost(movementType, x[2])>> : x \in steps}
    IN  IF more = reached THEN reached ELSE WalkCosts(more, movementType, budget)

\* least cost of a walk from start to each tile within the budget
TrueMinCost(start, movementType, budget) ==
    LET walks == WalkCosts({<<start, 0>>}, movementType, budget)
        tilesReached == {pc[1] : pc \in walks}
    IN  [p \in tilesReached |-> SetMin({pc[2] : pc \in {w \in walks : w[1] = p}})]

(***************************************************************************)
(* Pathfinder claims                                                       *)
(***************************************************************************)
\* C3: for every tile q that findMovementRange reports reachable, findPath from
\* the same start with the same movement type and no cap returns a route whose
\* cost is the cost findMovementRange reports for q.
C3_PathCostEqualsRangeCost ==
    rangeCall # NoCall =>
        \A q \in DOMAIN rangeResult :
            LET r == findPath(rangeCall.position, q, rangeCall.movementType, NoCap)
            IN  ~r.isNull /\ r.cost = rangeResult[q]

\* a ground range query in which some reported tile costs more than its distance
C3_Witness ==
    /\ rangeCall # NoCall
    /\ rangeCall.movementType = "ground"
    /\ \E q \in DOMAIN rangeResult :
          /\ rangeResult[q] > manhattanDistance(rangeCall.position, q)
          /\ rangeResult[q] = findPath(rangeCall.position, q, "ground", NoCap).cost

\* C4: findMovementRange returns exactly the tiles whose least movement cost
\* from the start is within the budget, each mapped to that least cost, the
\* start mapped to 0.
C4_RangeIsExactMinCost ==
    rangeCall # NoCall =>
        LET d == TrueMinCost(rangeCall.position, rangeCall.movementType,
                             rangeCall.movementPoints)
        IN  /\ DOMAIN rangeResult = DOMAIN d
            /\ \A p \in DOMAIN rangeResult : rangeResult[p] = d[p]
            /\ rangeResult[rangeCall.position] = 0

\* a ground range query that leaves a passable tile out and reaches another
\* at a cost above its distance
C4_Witness ==
    /\ rangeCall # NoCall
    /\ rangeCall.movementType = "ground"
    /\ \E p \in Pos \ DOMAIN rangeResult : tiles[p] # "water"
    /\ \E q \in DOMAIN rangeResult :
          rangeResult[q] > manhattanDistance(rangeCall.position, q)

\* C5: findPath(p, p, type, cap) returns an empty route with cost 0.
C5_SamePositionEmptyRoute ==
    (pathCall # NoCall /\ pathCall.startPos = pathCall.endPos) =>
        /\ ~pathResult.isNull
        /\ pathResult.path = <<>>
        /\ pathResult.cost = 0

\* a capped ground query from a water tile to itself
C5_Witness ==
    /\ pathCall # NoCall
    /\ pathCall.startPos = pathCall.endPos
    /\ pathCall.movementType = "ground"
    /\ pathCall.maxMovementPoints = MaxBudget
    /\ tiles[pathCall.startPos] = "water"
    /\ pathResult.path = <<>>

\* C6 as stated: every position of a returned route is passable for the type.
C6_EveryRoutePositionPassable ==
    (pathCall # NoCall /\ ~pathResult.isNull) =>
        \A i \in 1 .. Len(pathResult.path) :
            RefPassable(pathCall.movementType, pathResult.path[i])

\* C6 amended: every position of a returned route after its first (the start
\* tile, which findPath never tests) is passable for the movement type.
C6_EveryStepDestinationPassable ==
    (pathCall # NoCall /\ ~pathResult.isNull) =>
        \A i \in 2 .. Len(pathResult.path) :
            RefPassable(pathCall.movementType, pathResult.path[i])

\* a ground route of at least three tiles found on a map that has water
C6_Witness ==
    /\ pathCall # NoCall
    /\ pathCall.movementType = "ground"
    /\ ~pathResult.isNull
    /\ Len(pathResult.path) >= 3
    /\ \E p \in Pos : tiles[p] = "water"

(***************************************************************************)
(* Unit roster (UnitTypes)                                                 *)
(***************************************************************************)
UnitClass == {"infantry", "vehicle", "aircraft"}

\* aggressiveness and sensorWeight are decimals with one fractional digit, kept in tenths
UnitData(id, name, unitClass, movementType, movementPoints, faction, health, attackPower, attackRange, defense, detectionRange, aggressiveness, sensorWeight, fuelMax, fuelRate, ammoMax, ammoRate) ==
    [id |-> id, name |-> name, unitClass |-> unitClass, movementType |-> movementType,
     detectionRange |-> detectionRange, aggressiveness |-> aggressiveness,
     sensorWeight |-> sensorWeight,
     movementPoints |-> movementPoints, faction |-> faction,
     health |-> health, maxHealth |-> health, attackPower |-> attackPower,
     attackRange |-> attackRange, defense |-> defense,
     fuelCurrent |-> fuelMax, fuelMax |-> fuelMax, fuelConsumptionRate |-> fuelRate,
     ammunitionCurrent |-> ammoMax, ammunitionMax |-> ammoMax,
     ammunitionConsumptionRate |-> ammoRate]

UnitTypeIds == {"infantry", "helicopter", "tank", "enemy-infantry",
                "enemy-helicopter", "enemy-tank", "neutral-outpost"}

UnitTypes ==
    [id \in UnitTypeIds |->
        CASE id = "infantry" ->
               UnitData(id, "Infantry", "infantry", "ground", 4, "player", 100, 30, 2, 10, 5, 5, 7, 50, 1, 30, 5)
          [] id = "helicopter" ->
               UnitData(id, "Helicopter", "aircraft", "air", 7, "player", 150, 45, 3, 5, 7, 7, 8, 100, 3, 40, 8)
          [] id = "tank" ->
               UnitData(id, "Tank", "vehicle", "ground", 5, "player", 200, 60, 3, 30, 4, 6, 6, 150, 2, 20, 10)
          [] id = "enemy-infantry" ->
               UnitData(id, "Enemy Infantry", "infantry", "ground", 4, "enemy", 90, 25, 2, 8, 4, 8, 7, 50, 1, 25, 5)
          [] id = "enemy-helicopter" ->
               UnitData(id, "Enemy Chopper", "aircraft", "air", 6, "enemy", 130, 40, 3, 4, 6, 9, 8, 90, 3, 35, 7)
          [] id = "enemy-tank" ->
               UnitData(id, "Enemy Tank", "vehicle", "ground", 4, "enemy", 180, 55, 3, 25, 3, 7, 5, 120, 2, 15, 10)
          [] id = "neutral-outpost" ->
               UnitData(id, "Neutral Outpost", "vehicle", "ground", 0, "neutral", 150, 20, 2, 40, 5, 3, 5, 200, 0, 50, 2)]

(***************************************************************************)
(* SupplySystem                                                            *)
(***************************************************************************)
\* the map GameManager generates
GameMapWidth == 20
GameMapHeight == 20

SupplyBase(id, position, faction, fuelProduction, ammunitionProduction, supplyRange, capturable) ==
    [id |-> id, position |-> position, faction |-> faction,
     fuelProduction |-> fuelProduction, ammunitionProduction |-> ammunitionProduction,
     supplyRange |-> supplyRange, capturable |-> capturable]

\* the bases the constructor adds for a map of this size
NewBases(width, height) ==
    << SupplyBase("player-hq", <<2, 2>>, "player", 20, 15, 8, FALSE),
       SupplyBase("enemy-hq", <<width - 3, height - 3>>, "enemy", 20, 15, 8, FALSE),
       SupplyBase("outpost-1", <<width \div 2, height \div 2>>, "neutral", 15, 10, 6, TRUE),
       SupplyBase("outpost-2", <<width \div 3, (height * 2) \div 3>>, "neutral", 10, 5, 5, TRUE),
       SupplyBase("outpost-3", <<(width * 2) \div 3, height \div 3>>, "neutral", 5, 10, 5, TRUE) >>

getBasesByFaction(allBases, faction) ==
    SelectSeq(allBases, LAMBDA base : base.faction = faction)

\* the loop of calculateUnitSupply taking a base that is as near as the one held
RECURSIVE NearestInRangeLast(_, _, _)
NearestInRangeLast(factionalBases, unitPosition, nearest) ==
    IF factionalBases = <<>> THEN nearest
    ELSE LET base == Head(factionalBases)
             distance == manhattanDistance(unitPosition, base.position)
             closer == /\ distance <= base.supplyRange
                       /\ \/ nearest = <<>>
                          \/ distance <= manhattanDistance(unitPosition, nearest[1].position)
         IN  NearestInRangeLast(Tail(factionalBases), unitPosition,
                                IF closer THEN <<base>> ELSE nearest)

\* the loop of calculateUnitSupply: nearest is <<>> or <<base>>, the first base
\* in range at the least distance
RECURSIVE NearestInRange(_, _, _)
NearestInRange(factionalBases, unitPosition, nearest) ==
    IF factionalBases = <<>> THEN nearest
    ELSE LET base == Head(factionalBases)
             distance == manhattanDistance(unitPosition, base.position)
             closer == /\ distance <= base.supplyRange
                       /\ \/ nearest = <<>>
                          \/ distance < manhattanDistance(unitPosition, nearest[1].position)
         IN  NearestInRange(Tail(factionalBases), unitPosition,
                            IF closer THEN <<base>> ELSE nearest)

calculateUnitSupply(allBases, unit, unitPosition) ==
    LET nearest == NearestInRange(getBasesByFaction(allBases, unit.faction), unitPosition, <<>>)
    IN  [inSupplyRange |-> nearest # <<>>,
         nearestBase |-> nearest,
         supplyDistance |-> IF nearest # <<>>
                            THEN manhattanDistance(unitPosition, nearest[1].position)
                            ELSE -1,
         canReceiveFuel |-> nearest # <<>> /\ nearest[1].fuelProduction > 0,
         canReceiveAmmo |-> nearest # <<>> /\ nearest[1].ammunitionProduction > 0]

addBase(allBases, base) == Append(allBases, base)

\* findIndex: the index of the first base with this id, 0 for none
BaseIndex(allBases, baseId) ==
    LET hits == {i \in 1 .. Len(allBases) : allBases[i].id = baseId}
    IN  IF hits = {} THEN 0 ELSE CHOOSE i \in hits : \A j \in hits : i <= j

\* captureBase taking any base it finds
captureBaseAny(allBases, baseId, newFaction) ==
    LET baseIndex == BaseIndex(allBases, baseId)
    IN  IF baseIndex = 0 THEN [returned |-> FALSE, bases |-> allBases]
        ELSE [returned |-> TRUE,
              bases |-> [allBases EXCEPT ![baseIndex].faction = newFaction]]

\* captureBase: what it returns and the bases afterwards
captureBase(allBases, baseId, newFaction) ==
    LET baseIndex == BaseIndex(allBases, baseId)
    IN  IF baseIndex = 0 \/ ~allBases[baseIndex].capturable
        THEN [returned |-> FALSE, bases |-> allBases]
        ELSE [returned |-> TRUE,
              bases |-> [allBases EXCEPT ![baseIndex].faction = newFaction]]

\* calculateMovementConsumption charging for every tile of the path
calculateMovementConsumptionEveryTile(unit, path) ==
    [fuelConsumed |-> Len(path) * unit.fuelConsumptionRate, ammunitionConsumed |-> 0]

calculateMovementConsumption(unit, path) ==
    LET tilesCount == Max(0, Len(path) - 1)
    IN  [fuelConsumed |-> tilesCount * unit.fuelConsumptionRate, ammunitionConsumed |-> 0]

\* calculateCombatConsumption reporting that an attack costs nothing
calculateCombatConsumptionFree(unit) ==
    [fuelConsumed |-> 0, ammunitionConsumed |-> 0]

calculateCombatConsumption(unit) ==
    [fuelConsumed |-> 0, ammunitionConsumed |-> unit.ammunitionConsumptionRate]

canUnitMove(unit, path) ==
    IF unit.fuelCurrent < calculateMovementConsumption(unit, path).fuelConsumed
    THEN [canMove |-> FALSE, reason |-> "Not enough fuel"]
    ELSE [canMove |-> TRUE, reason |-> ""]

\* canUnitAttack refusing a unit that has exactly the ammunition it needs
canUnitAttackStrict(unit) ==
    IF unit.ammunitionCurrent <= calculateCombatConsumption(unit).ammunitionConsumed
    THEN [canAttack |-> FALSE, reason |-> "Not enough ammunition"]
    ELSE [canAttack |-> TRUE, reason |-> ""]

canUnitAttack(unit) ==
    IF unit.ammunitionCurrent < calculateCombatConsumption(unit).ammunitionConsumed
    THEN [canAttack |-> FALSE, reason |-> "Not enough ammunition"]
    ELSE [canAttack |-> TRUE, reason |-> ""]

\* resupplyUnit handing over the whole production of the base
resupplyUnitWholeProduction(allBases, unit, position) ==
    LET supplyInfo == calculateUnitSupply(allBases, unit, position)
    IN  IF ~supplyInfo.inSupplyRange
        THEN [returned |-> [fuelAdded |-> 0, ammoAdded |-> 0, resupplied |-> FALSE],
              unit |-> unit]
        ELSE LET base == supplyInfo.nearestBase[1]
             IN  [returned |-> [fuelAdded |-> base.fuelProduction,
                                ammoAdded |-> base.ammunitionProduction,
                                resupplied |-> base.fuelProduction > 0
                                               \/ base.ammunitionProduction > 0],
                  unit |-> [unit EXCEPT !.fuelCurrent = @ + base.fuelProduction,
                                        !.ammunitionCurrent = @ + base.ammunitionProduction]]

\* resupplyUnit: what it returns and the unit afterwards
resupplyUnit(allBases, unit, position) ==
    LET supplyInfo == calculateUnitSupply(allBases, unit, position)
    IN  IF ~supplyInfo.inSupplyRange \/ supplyInfo.nearestBase = <<>>
        THEN [returned |-> [fuelAdded |-> 0, ammoAdded |-> 0, resupplied |-> FALSE],
              unit |-> unit]
        ELSE LET base == supplyInfo.nearestBase[1]
                 fuelNeeded == unit.fuelMax - unit.fuelCurrent
                 ammoNeeded == unit.ammunitionMax - unit.ammunitionCurrent
                 fuelAdded == Min(fuelNeeded, base.fuelProduction)
                 ammoAdded == Min(ammoNeeded, base.ammunitionProduction)
             IN  [returned |-> [fuelAdded |-> fuelAdded, ammoAdded |-> ammoAdded,
                                resupplied |-> fuelAdded > 0 \/ ammoAdded > 0],
                  unit |-> [unit EXCEPT !.fuelCurrent = @ + fuelAdded,
                                        !.ammunitionCurrent = @ + ammoAdded]]

getBaseAtPosition(allBases, position) ==
    LET hits == {i \in 1 .. Len(allBases) : allBases[i].position = position}
    IN  IF hits = {} THEN <<>>
        ELSE <<allBases[CHOOSE i \in hits : \A j \in hits : i <= j]>>

(***************************************************************************)
(* CombatSystem.  The multipliers are decimals with one fractional digit;   *)
(* they are kept in tenths and the damage in thousandths.                  *)
(***************************************************************************)
classAdvantage ==
    [a \in UnitClass |-> [d \in UnitClass |->
        CASE a = "infantry" /\ d = "infantry" -> 10
          [] a = "infantry" /\ d = "vehicle"  -> 7
          [] a = "infantry" /\ d = "aircraft" -> 4
          [] a = "vehicle"  /\ d = "infantry" -> 15
          [] a = "vehicle"  /\ d = "vehicle"  -> 10
          [] a = "vehicle"  /\ d = "aircraft" -> 6
          [] a = "aircraft" /\ d = "infantry" -> 18
          [] a = "aircraft" /\ d = "vehicle"  -> 14
          [] a = "aircraft" /\ d = "aircraft" -> 10]]

getTerrainModifiers(terrainType) ==
    CASE terrainType = "plains"   -> [attackModifier |-> 10, defenseModifier |-> 10]
      [] terrainType = "forest"   -> [attackModifier |-> 9,  defenseModifier |-> 12]
      [] terrainType = "mountain" -> [attackModifier |-> 11, defenseModifier |-> 13]
      [] terrainType = "water"    -> [attackModifier |-> 8,  defenseModifier |-> 7]
      [] OTHER                    -> [attackModifier |-> 10, defenseModifier |-> 10]

\* The products are IEEE-754 doubles.  On the roster they equal the decimal
\* products except that 45 * 1.4 is 62.99999999999999, which puts two
\* differences that are exactly k + 0.5 in decimals just below the tie:
\* <<attackPower, class multiplier, attack modifier, supply factor, defense,
\*   defense modifier>>, multipliers in tenths.
DoubleBelowTie ==
    { <<45, 14, 10, 10, 25, 13>>, <<45, 14, 10, 10, 25, 7>> }

\* Math.round(damage - effectiveDefense)
RoundDifference(attackPower, advantage, attackModifier, supplyFactor, defense, defenseModifier) ==
    LET thousandths == attackPower * advantage * attackModifier * supplyFactor
                          - defense * defenseModifier * 100
    IN  IF <<attackPower, advantage, attackModifier, supplyFactor, defense,
             defenseModifier>> \in DoubleBelowTie
        THEN thousandths \div 1000
        ELSE (thousandths + 500) \div 1000

\* the final damage without the floor of 1
FinalDamageNoFloor(rounded) == rounded

\* Math.max(1, Math.round(...))
FinalDamage(rounded) == Max(1, rounded)

\* the result of the out-of-ammunition return
MinimalDamageResult(defender) ==
    [damage |-> 1,
     isKill |-> defender.health <= 1,
     defenderRemainingHealth |-> Max(0, defender.health - 1),
     ammunitionConsumed |-> 0,
     diplomaticConsequence |-> <<>>]

\* resolveCombat: the result, the attacker afterwards, and the ledger afterwards
resolveCombatOn(supplySystem, diplomacySystem, attacker, attackerPos, defender, defenderPos) ==
    IF supplySystem /\ ~canUnitAttack(attacker).canAttack
    THEN [result |-> MinimalDamageResult(defender), attacker |-> attacker,
          relations |-> relations, actionHistory |-> actionHistory,
          notified |-> notified]
    ELSE
    LET ammunitionConsumed == IF supplySystem THEN attacker.ammunitionConsumptionRate ELSE 0
        attackerAfter == [attacker EXCEPT !.ammunitionCurrent = @ - ammunitionConsumed]
        attackerMods == getTerrainModifiers(tiles[attackerPos])
        defenderMods == getTerrainModifiers(tiles[defenderPos])
        supplyFactor == IF supplySystem
                           /\ ~calculateUnitSupply(bases, defender, defenderPos).inSupplyRange
                        THEN 12 ELSE 10
        finalDamage == FinalDamage(RoundDifference(
                           attacker.attackPower,
                           classAdvantage[attacker.unitClass][defender.unitClass],
                           attackerMods.attackModifier, supplyFactor,
                           defender.defense, defenderMods.defenseModifier))
        remainingHealth == Max(0, defender.health - finalDamage)
        isKill == remainingHealth <= 0
        penalised == diplomacySystem /\ attacker.faction # defender.faction
        actionType == IF isKill THEN "DESTROY_UNIT" ELSE "ATTACK_UNIT"
        actionValue == IF isKill THEN -25 ELSE -15
        ledger == IF penalised
                  THEN modifyRelation(relations, actionHistory, attacker.faction,
                                      defender.faction, actionValue, actionType,
                                      <<attacker.name,
                                        IF isKill THEN "destroyed" ELSE "attacked",
                                        defender.name>>)
                  ELSE [relations |-> relations, actionHistory |-> actionHistory,
                        notified |-> notified]
    IN  [result |-> [damage |-> finalDamage,
                     isKill |-> isKill,
                     defenderRemainingHealth |-> remainingHealth,
                     ammunitionConsumed |-> ammunitionConsumed,
                     diplomaticConsequence |->
                         IF penalised
                         THEN <<[type |-> actionType, value |-> actionValue]>>
                         ELSE <<>>],
         attacker |-> attackerAfter,
         relations |-> ledger.relations,
         actionHistory |-> ledger.actionHistory,
         notified |-> ledger.notified]

\* resolveCombat on the combat system of the model, built with or without a
\* supply network and a ledger
resolveCombat(attacker, attackerPos, defender, defenderPos) ==
    resolveCombatOn(hasSupply, hasDiplomacy, attacker, attackerPos, defender, defenderPos)

(***************************************************************************)
(* Combat between two units of the roster on the generated map             *)
(***************************************************************************)
\* where the attacker stands, and the tiles the defender may stand on: near
\* the player headquarters, near the central outpost, near the enemy headquarters
AttackerPosition == <<5, 5>>
DefenderPositions == { <<4, 4>>, <<12, 12>>, <<15, 15>> }

\* health a defender may be left with by earlier attacks
WornHealth == {1, 20}

InitCombat ==
    /\ mapWidth = GameMapWidth
    /\ mapHeight = GameMapHeight
    /\ rangeCall = NoCall
    /\ rangeResult = <<>>
    /\ pathCall = NoCall
    /\ pathResult = PathNull
    /\ relations = NewRelations
    /\ actionHistory = <<>>
    /\ actionListeners = <<>>
    /\ notified = <<>>
    /\ dipCall = NoCall
    /\ bases = NewBases(GameMapWidth, GameMapHeight)
    /\ hasSupply \in BOOLEAN
    /\ hasDiplomacy \in BOOLEAN
    /\ \E attackerType \in UnitTypeIds, defenderType \in UnitTypeIds,
          defenderPos \in DefenderPositions,
          attackerTerrain \in TerrainType, defenderTerrain \in TerrainType,
          lowAmmo \in BOOLEAN, health \in WornHealth \cup {0} :
          /\ tiles = (AttackerPosition :> attackerTerrain) @@ (defenderPos :> defenderTerrain)
          /\ units =
                [attacker |->
                    [UnitTypes[attackerType] EXCEPT
                        !.ammunitionCurrent =
                            IF lowAmmo THEN UnitTypes[attackerType].ammunitionConsumptionRate - 1
                            ELSE @]
                        @@ [position |-> AttackerPosition],
                 defender |->
                    [UnitTypes[defenderType] EXCEPT
                        !.health = IF health = 0 THEN @ ELSE health]
                        @@ [position |-> defenderPos]]
    /\ combatCall = NoCall
    /\ combatResult = NoCall
    /\ supplyCall = NoCall
    /\ supplyResult = NoCall
    /\ turnCall = NoCall
    /\ turnResult = NoCall
    /\ calls = 0
    /\ AppIdle

ResolveCombat ==
    /\ calls < MaxCalls
    /\ LET outcome == resolveCombat(units.attacker, units.attacker.position,
                                    units.defender, units.defender.position)
       IN  /\ combatCall' = [op |-> "resolveCombat", attacker |-> units.attacker,
                             defender |-> units.defender,
                             relations |-> relations, actionHistory |-> actionHistory]
           /\ combatResult' = outcome.result
           /\ units' = [units EXCEPT !.attacker = outcome.attacker]
           /\ relations' = outcome.relations
           /\ actionHistory' = outcome.actionHistory
           /\ notified' = outcome.notified
    /\ calls' = calls + 1
    /\ UNCHANGED <<appVars, pathVars, actionListeners, dipCall, bases, hasSupply, hasDiplomacy, supplyVars, turnVars>>

NextCombat == ResolveCombat

SpecCombat == InitCombat /\ [][NextCombat]_vars

(***************************************************************************)
(* Combat claims.  combatCall holds the arguments and the ledger as they    *)
(* were when resolveCombat was entered, combatResult what it returned.      *)
(***************************************************************************)
Resolved == combatCall.op = "resolveCombat"

\* the attacker could pay for the attack when resolveCombat was entered
Affordable ==
    ~hasSupply
    \/ combatCall.attacker.ammunitionCurrent >= combatCall.attacker.ammunitionConsumptionRate

\* C7: every resolved combat reports damage of at least 1, a remaining health
\* of max(0, defender health - damage), and a kill exactly when the remaining
\* health is 0; a defender at exactly 1 health is reported killed with 0 left.
C7_DamageHealthKillConsistent ==
    Resolved =>
        /\ combatResult.damage >= 1
        /\ combatResult.defenderRemainingHealth
              = Max(0, combatCall.defender.health - combatResult.damage)
        /\ combatResult.isKill <=> (combatResult.defenderRemainingHealth = 0)
        /\ combatCall.defender.health = 1 =>
              combatResult.isKill /\ combatResult.defenderRemainingHealth = 0

\* an affordable attack whose rounded difference is below 1 finishes a
\* defender at 1 health
C7_Witness ==
    /\ Resolved
    /\ hasSupply
    /\ combatResult.ammunitionConsumed > 0
    /\ combatCall.attacker.attackPower = 30
    /\ combatCall.defender.defense = 40
    /\ combatCall.defender.health = 1
    /\ combatResult.damage = 1
    /\ combatResult.isKill

\* the rounding of the claimed formula: the decimal difference, ties upward
RoundDecimal(attackPower, advantage, attackModifier, supplyFactor, defense, defenseModifier) ==
    (attackPower * advantage * attackModifier * supplyFactor
        - defense * defenseModifier * 100 + 500) \div 1000

\* C8: when the attacker can afford the attack, the damage is
\* max(1, round(attackPower x class matchup x attacker terrain attack modifier
\* x (1.2 if the defender is out of supply range, else 1)
\* - defense x defender terrain defense modifier)).
C8_DamageFollowsFormula ==
    (Resolved /\ Affordable) =>
        LET attacker == combatCall.attacker
            defender == combatCall.defender
            outOfSupply == hasSupply
                           /\ ~calculateUnitSupply(bases, defender, defender.position).inSupplyRange
        IN  combatResult.damage =
                Max(1, RoundDecimal(attacker.attackPower,
                                    classAdvantage[attacker.unitClass][defender.unitClass],
                                    getTerrainModifiers(tiles[attacker.position]).attackModifier,
                                    IF outOfSupply THEN 12 ELSE 10,
                                    defender.defense,
                                    getTerrainModifiers(tiles[defender.position]).defenseModifier))

\* C9 as stated: out of ammunition under a supply network the result is
\* damage 1, nothing consumed, ammunition untouched; in every other case the
\* per-attack cost is deducted and reported as consumed.
C9_OtherwiseAlwaysDeducts ==
    Resolved =>
        LET before == combatCall.attacker
            after == units.attacker
            short == hasSupply /\ before.ammunitionCurrent < before.ammunitionConsumptionRate
        IN  /\ short =>
                  /\ combatResult.damage = 1
                  /\ combatResult.ammunitionConsumed = 0
                  /\ after.ammunitionCurrent = before.ammunitionCurrent
            /\ ~short =>
                  /\ after.ammunitionCurrent
                        = before.ammunitionCurrent - before.ammunitionConsumptionRate
                  /\ combatResult.ammunitionConsumed = before.ammunitionConsumptionRate

\* C9: out of ammunition under a supply network the result is damage 1, nothing
\* consumed, ammunition untouched; with enough ammunition under a supply network
\* the per-attack cost is deducted and reported as consumed; without a supply
\* network nothing is deducted and 0 is reported as consumed.
C9_DeductsOnlyUnderSupplyNetwork ==
    Resolved =>
        LET before == combatCall.attacker
            after == units.attacker
            short == before.ammunitionCurrent < before.ammunitionConsumptionRate
        IN  /\ (hasSupply /\ short) =>
                  /\ combatResult.damage = 1
                  /\ combatResult.ammunitionConsumed = 0
                  /\ after.ammunitionCurrent = before.ammunitionCurrent
            /\ (hasSupply /\ ~short) =>
                  /\ after.ammunitionCurrent
                        = before.ammunitionCurrent - before.ammunitionConsumptionRate
                  /\ combatResult.ammunitionConsumed = before.ammunitionConsumptionRate
            /\ ~hasSupply =>
                  /\ after.ammunitionCurrent = before.ammunitionCurrent
                  /\ combatResult.ammunitionConsumed = 0

\* a second attack that spends exactly the ammunition the first one left
C9_Witness ==
    /\ Resolved
    /\ hasSupply
    /\ calls = 2
    /\ combatCall.attacker.ammunitionCurrent = combatCall.attacker.ammunitionConsumptionRate
    /\ combatResult.ammunitionConsumed = combatCall.attacker.ammunitionConsumptionRate
    /\ units.attacker.ammunitionCurrent = 0

\* C10: whenever a ledger is attached and the factions differ, the relation
\* drops by 25 on a kill and by 15 otherwise (not below -100), exactly one
\* DESTROY_UNIT or ATTACK_UNIT action is appended, and the result carries the
\* matching consequence; with equal factions the ledger is unchanged.
C10_PenaltyWheneverFactionsDiffer ==
    (Resolved /\ hasDiplomacy) =>
        LET attacker == combatCall.attacker
            defender == combatCall.defender
            delta == IF combatResult.isKill THEN -25 ELSE -15
            type == IF combatResult.isKill THEN "DESTROY_UNIT" ELSE "ATTACK_UNIT"
        IN  /\ attacker.faction # defender.faction =>
                  /\ getRelation(relations, attacker.faction, defender.faction)
                        = Max(-100, getRelation(combatCall.relations, attacker.faction,
                                                defender.faction) + delta)
                  /\ Len(actionHistory) = Len(combatCall.actionHistory) + 1
                  /\ actionHistory[Len(actionHistory)].type = type
                  /\ combatResult.diplomaticConsequence = <<[type |-> type, value |-> delta]>>
            /\ attacker.faction = defender.faction =>
                  /\ relations = combatCall.relations
                  /\ actionHistory = combatCall.actionHistory

\* C11: after resolveCombat the defender's health field equals the reported
\* remaining health and the attacker's ammunition is reduced by the reported
\* consumption, so a second resolveCombat starts from the reduced health.
C11_DefenderHealthIsRemainingHealth ==
    Resolved =>
        /\ units.defender.health = combatResult.defenderRemainingHealth
        /\ units.attacker.ammunitionCurrent
              = combatCall.attacker.ammunitionCurrent - combatResult.ammunitionConsumed

(***************************************************************************)
(* The supply network driven through its public operations, for one unit   *)
(* of the roster on the generated map                                      *)
(***************************************************************************)
\* where the unit stands: near the player headquarters, near the central
\* outpost, near the enemy headquarters
UnitPositions == { <<5, 5>>, <<12, 12>>, <<15, 15>> }

\* fuel and ammunition a unit may be left with by earlier moves and attacks
WornFuel == {0, 10}
WornAmmunition == {4}

\* a depot a client adds next to the first position
Depot(faction) == SupplyBase("depot", <<5, 6>>, faction, 60, 0, 3, TRUE)

\* a depot producing nothing, as far from (3, 4) as the player headquarters is
DryDepot(faction) == SupplyBase("depot", <<4, 6>>, faction, 0, 0, 3, TRUE)

\* ids given to captureBase; the last one names no base
CaptureIds == {"player-hq", "outpost-1", "depot", "nowhere"}

\* numbers of tiles of the paths given to canUnitMove
PathLengths == {0, 1, 6, 12}

\* a path of that many tiles leaving the position along its row
StraightPath(position, tiles_) == [i \in 1 .. tiles_ |-> <<position[1] + i - 1, position[2]>>]

InitSupply ==
    /\ tiles = <<>>
    /\ mapWidth = GameMapWidth
    /\ mapHeight = GameMapHeight
    /\ rangeCall = NoCall
    /\ rangeResult = <<>>
    /\ pathCall = NoCall
    /\ pathResult = PathNull
    /\ relations = NewRelations
    /\ actionHistory = <<>>
    /\ actionListeners = <<>>
    /\ notified = <<>>
    /\ dipCall = NoCall
    /\ bases = NewBases(GameMapWidth, GameMapHeight)
    /\ hasSupply = TRUE
    /\ hasDiplomacy = FALSE
    /\ \E unitType \in UnitTypeIds, position \in UnitPositions :
       \E fuel \in WornFuel \cup {UnitTypes[unitType].fuelMax},
          ammunition \in WornAmmunition \cup {UnitTypes[unitType].ammunitionConsumptionRate,
                                               UnitTypes[unitType].ammunitionMax} :
          units = [unit |->
                    [UnitTypes[unitType] EXCEPT !.fuelCurrent = fuel,
                                                !.ammunitionCurrent = ammunition]
                        @@ [position |-> position]]
    /\ combatCall = NoCall
    /\ combatResult = NoCall
    /\ supplyCall = NoCall
    /\ supplyResult = NoCall
    /\ turnCall = NoCall
    /\ turnResult = NoCall
    /\ calls = 0
    /\ AppIdle

AddBase ==
    /\ calls < MaxCalls
    /\ Len(bases) = Len(NewBases(mapWidth, mapHeight))
    /\ \E faction \in Faction :
       \E base \in {Depot(faction), DryDepot(faction)} :
          /\ bases' = addBase(bases, base)
          /\ supplyCall' = [op |-> "addBase", base |-> base, bases |-> bases]
          /\ supplyResult' = NoCall
    /\ calls' = calls + 1
    /\ UNCHANGED <<appVars, pathVars, dipVars, units, hasSupply, hasDiplomacy, combatCall, combatResult, turnVars>>

CaptureBase ==
    /\ calls < MaxCalls
    /\ \E baseId \in CaptureIds, newFaction \in Faction :
          LET outcome == captureBase(bases, baseId, newFaction)
          IN  /\ bases' = outcome.bases
              /\ supplyCall' = [op |-> "captureBase", baseId |-> baseId,
                                newFaction |-> newFaction, bases |-> bases]
              /\ supplyResult' = [returned |-> outcome.returned]
    /\ calls' = calls + 1
    /\ UNCHANGED <<appVars, pathVars, dipVars, units, hasSupply, hasDiplomacy, combatCall, combatResult, turnVars>>

ResupplyUnit ==
    /\ calls < MaxCalls
    /\ \E u \in DOMAIN units :
          LET outcome == resupplyUnit(bases, units[u], units[u].position)
          IN  /\ units' = [units EXCEPT ![u] = outcome.unit]
              /\ supplyCall' = [op |-> "resupplyUnit", id |-> u, unit |-> units[u], bases |-> bases]
              /\ supplyResult' = outcome.returned
    /\ calls' = calls + 1
    /\ UNCHANGED <<appVars, pathVars, dipVars, bases, hasSupply, hasDiplomacy, combatCall, combatResult, turnVars>>

\* calculateUnitSupply for the unit at one of the positions or at (3, 4)
CalculateUnitSupply ==
    /\ calls < MaxCalls
    /\ \E u \in DOMAIN units, unitPosition \in UnitPositions \cup { <<3, 4>> } :
          /\ supplyCall' = [op |-> "calculateUnitSupply", id |-> u, unit |-> units[u],
                            unitPosition |-> unitPosition, bases |-> bases]
          /\ supplyResult' = calculateUnitSupply(bases, units[u], unitPosition)
    /\ calls' = calls + 1
    /\ UNCHANGED <<appVars, pathVars, dipVars, combatVars, turnVars>>

CanUnitAttack ==
    /\ calls < MaxCalls
    /\ \E u \in DOMAIN units :
          /\ supplyCall' = [op |-> "canUnitAttack", id |-> u, unit |-> units[u], bases |-> bases]
          /\ supplyResult' = canUnitAttack(units[u])
    /\ calls' = calls + 1
    /\ UNCHANGED <<appVars, pathVars, dipVars, combatVars, turnVars>>

CanUnitMove ==
    /\ calls < MaxCalls
    /\ \E u \in DOMAIN units, length \in PathLengths :
          LET path == StraightPath(units[u].position, length)
          IN  /\ supplyCall' = [op |-> "canUnitMove", id |-> u, unit |-> units[u],
                                path |-> path, bases |-> bases]
              /\ supplyResult' = canUnitMove(units[u], path)
    /\ calls' = calls + 1
    /\ UNCHANGED <<appVars, pathVars, dipVars, combatVars, turnVars>>

NextSupply ==
    \/ AddBase
    \/ CaptureBase
    \/ ResupplyUnit
    \/ CalculateUnitSupply
    \/ CanUnitAttack
    \/ CanUnitMove

SpecSupply == InitSupply /\ [][NextSupply]_vars

(***************************************************************************)
(* Supply claims.  supplyCall holds the arguments, the unit and the bases   *)
(* as they were when the operation was entered.                            *)
(***************************************************************************)
\* the bases of the unit's faction that have the position within their range
OwnBasesInRange(allBases, unit) ==
    {i \in 1 .. Len(allBases) :
        /\ allBases[i].faction = unit.faction
        /\ manhattanDistance(unit.position, allBases[i].position) <= allBases[i].supplyRange}

\* those of them at the least distance
NearestOwnBases(allBases, unit) ==
    {i \in OwnBasesInRange(allBases, unit) :
        \A j \in OwnBasesInRange(allBases, unit) :
            manhattanDistance(unit.position, allBases[i].position)
                <= manhattanDistance(unit.position, allBases[j].position)}

\* C12: for a unit with fuel and ammunition within [0, max], resupplyUnit adds
\* min(max - current, production of the nearest own base in range) to each
\* resource, so neither exceeds its maximum; it adds 0 to a full resource; with
\* no own base in range it adds 0 and reports resupplied = false.
C12_ResupplyAddsCappedProduction ==
    supplyCall.op = "resupplyUnit" =>
        LET before == supplyCall.unit
            after == units[supplyCall.id]
            nearest == NearestOwnBases(supplyCall.bases, before)
        IN  /\ after.fuelCurrent = before.fuelCurrent + supplyResult.fuelAdded
            /\ after.ammunitionCurrent = before.ammunitionCurrent + supplyResult.ammoAdded
            /\ after.fuelCurrent <= after.fuelMax
            /\ after.ammunitionCurrent <= after.ammunitionMax
            /\ before.fuelCurrent = before.fuelMax => supplyResult.fuelAdded = 0
            /\ before.ammunitionCurrent = before.ammunitionMax => supplyResult.ammoAdded = 0
            /\ [after EXCEPT !.fuelCurrent = 0, !.ammunitionCurrent = 0]
                  = [before EXCEPT !.fuelCurrent = 0, !.ammunitionCurrent = 0]
            /\ nearest = {} =>
                  supplyResult = [fuelAdded |-> 0, ammoAdded |-> 0, resupplied |-> FALSE]
            /\ nearest # {} =>
                  \E i \in nearest :
                      /\ supplyResult.fuelAdded
                            = Min(before.fuelMax - before.fuelCurrent,
                                  supplyCall.bases[i].fuelProduction)
                      /\ supplyResult.ammoAdded
                            = Min(before.ammunitionMax - before.ammunitionCurrent,
                                  supplyCall.bases[i].ammunitionProduction)

\* a unit at 10/50 fuel next to a base producing 60 gains exactly 40
C12_Witness ==
    /\ supplyCall.op = "resupplyUnit"
    /\ supplyCall.unit.fuelCurrent = 10
    /\ supplyCall.unit.fuelMax = 50
    /\ \E i \in NearestOwnBases(supplyCall.bases, supplyCall.unit) :
          supplyCall.bases[i].fuelProduction = 60
    /\ supplyResult.fuelAdded = 40
    /\ units[supplyCall.id].fuelCurrent = 50

\* C14: canUnitAttack reports false, with a reason, exactly when the unit's
\* ammunition is below its per-attack cost; canUnitMove reports false, with a
\* reason, exactly when its fuel is below (tiles of the path without the
\* starting tile) x per-tile rate; both report true otherwise and neither
\* changes the unit.
C14_AffordabilityChecks ==
    /\ supplyCall.op = "canUnitAttack" =>
          LET unit == supplyCall.unit
              short == unit.ammunitionCurrent < unit.ammunitionConsumptionRate
          IN  /\ supplyResult.canAttack <=> ~short
              /\ short => supplyResult.reason # ""
              /\ units[supplyCall.id] = unit
    /\ supplyCall.op = "canUnitMove" =>
          LET unit == supplyCall.unit
              entered == IF Len(supplyCall.path) = 0 THEN 0 ELSE Len(supplyCall.path) - 1
              short == unit.fuelCurrent < entered * unit.fuelConsumptionRate
          IN  /\ supplyResult.canMove <=> ~short
              /\ short => supplyResult.reason # ""
              /\ units[supplyCall.id] = unit

\* ammunition 4 against a cost of 5 is refused with a reason
C14_Witness ==
    /\ supplyCall.op = "canUnitAttack"
    /\ supplyCall.unit.ammunitionCurrent = 4
    /\ supplyCall.unit.ammunitionConsumptionRate = 5
    /\ ~supplyResult.canAttack
    /\ supplyResult.reason = "Not enough ammunition"

(***************************************************************************)
(* UtilityAI.  The scores are sums of decimals with at most two fractional *)
(* digits and of distance / detectionRange * 0.2; they are kept in 2100ths, *)
(* which holds every one of them as an integer for detection ranges 3..7.  *)
(* On the roster the doubles order the five evaluations as these integers  *)
(* do; where two are equal as decimals the doubles either are equal too or *)
(* put first the one the stable sort leaves first.  The attack scores of   *)
(* two enemies are compared as doubles.                                    *)
(***************************************************************************)
AttackScore(unit, enemy) ==
    LET enemyWeak == 10 * enemy.unitData.health < 3 * enemy.unitData.maxHealth
        healthAdvantage == unit.health * enemy.unitData.maxHealth
                              > enemy.unitData.health * unit.maxHealth
        powerDiff == unit.attackPower - enemy.unitData.defense
    IN  unit.aggressiveness * 105
          + (IF enemyWeak THEN 630 ELSE 0)
          + (IF healthAdvantage THEN 420 ELSE -210)
          + (IF powerDiff > 0 THEN 420 ELSE -210)

\* The sum ((aggressiveness * 0.5 + weak) + advantage) + power is rounded after
\* every step, so two enemies whose scores are the same decimal may get
\* different doubles.  By how many units in the last place the double of the
\* score lies above the double nearest to the decimal, for the aggressiveness
\* values of the roster and for 0:
AttackRounding(unit, enemy) ==
    LET enemyWeak == 10 * enemy.unitData.health < 3 * enemy.unitData.maxHealth
        healthAdvantage == unit.health * enemy.unitData.maxHealth
                              > enemy.unitData.health * unit.maxHealth
        powerDiff == unit.attackPower - enemy.unitData.defense
        terms == <<unit.aggressiveness, enemyWeak, healthAdvantage, powerDiff > 0>>
    IN  CASE terms \in { <<5, TRUE, FALSE, FALSE>> } -> 2
          [] terms \in { <<5, TRUE, FALSE, TRUE>>, <<6, TRUE, TRUE, FALSE>>,
                         <<7, FALSE, TRUE, FALSE>>, <<8, FALSE, TRUE, FALSE>>,
                         <<8, FALSE, FALSE, FALSE>>, <<9, TRUE, FALSE, TRUE>>,
                         <<9, FALSE, TRUE, TRUE>> } -> 1
          [] terms \in { <<3, TRUE, TRUE, TRUE>>, <<3, TRUE, TRUE, FALSE>>,
                         <<7, TRUE, TRUE, TRUE>>, <<7, TRUE, TRUE, FALSE>>,
                         <<7, TRUE, FALSE, FALSE>>, <<7, FALSE, FALSE, TRUE>>,
                         <<7, FALSE, FALSE, FALSE>>, <<8, TRUE, TRUE, TRUE>>,
                         <<8, TRUE, TRUE, FALSE>> } -> -1
          [] terms \in { <<0, TRUE, FALSE, FALSE>>, <<3, FALSE, FALSE, FALSE>>,
                         <<5, FALSE, FALSE, FALSE>>, <<6, FALSE, FALSE, FALSE>> } -> -2
          [] OTHER -> 0

\* the loop of evaluateAttack without the test of the distance
RECURSIVE AttackLoopAnyRange(_, _, _, _)
AttackLoopAnyRange(unit, position, enemies, best) ==
    IF enemies = <<>> THEN best
    ELSE LET enemy == Head(enemies)
             score == AttackScore(unit, enemy)
             rounding == AttackRounding(unit, enemy)
             higher == \/ score > best.score
                       \/ score = best.score /\ rounding > best.rounding
         IN  AttackLoopAnyRange(unit, position, Tail(enemies),
                 IF higher
                 THEN [best EXCEPT !.score = score,
                                   !.rounding = rounding,
                                   !.targetUnit = <<enemy.unitData>>,
                                   !.targetPosition = <<enemy.position>>]
                 ELSE best)

\* the loop of evaluateAttack over the enemies left, best holding highestScore
\* (the decimal and the rounding of its double) and the target chosen so far
RECURSIVE AttackLoop(_, _, _, _)
AttackLoop(unit, position, enemies, best) ==
    IF enemies = <<>> THEN best
    ELSE LET enemy == Head(enemies)
             distance == manhattanDistance(position, enemy.position)
             score == AttackScore(unit, enemy)
             rounding == AttackRounding(unit, enemy)
             higher == \/ score > best.score
                       \/ score = best.score /\ rounding > best.rounding
         IN  AttackLoop(unit, position, Tail(enemies),
                 IF distance <= unit.attackRange /\ higher
                 THEN [best EXCEPT !.score = score,
                                   !.rounding = rounding,
                                   !.targetUnit = <<enemy.unitData>>,
                                   !.targetPosition = <<enemy.position>>]
                 ELSE best)

evaluateAttack(unit, position, enemies) ==
    LET best == AttackLoop(unit, position, enemies,
                           [score |-> 0, rounding |-> 0, targetPosition |-> <<>>,
                            targetUnit |-> <<>>])
    IN  [action |-> "attack", score |-> best.score,
         targetPosition |-> best.targetPosition, targetUnit |-> best.targetUnit]

MoveToEnemyScore(unit, distance) ==
    unit.aggressiveness * 126
      + unit.sensorWeight * 63
      + (IF 10 * unit.health > 7 * unit.maxHealth THEN 420 ELSE -210)
      + (2100 - (420 * distance) \div unit.detectionRange)

RECURSIVE MoveToEnemyLoop(_, _, _, _)
MoveToEnemyLoop(unit, position, enemies, best) ==
    IF enemies = <<>> THEN best
    ELSE LET enemy == Head(enemies)
             distance == manhattanDistance(position, enemy.position)
             inBand == distance > unit.attackRange /\ distance <= unit.detectionRange
         IN  MoveToEnemyLoop(unit, position, Tail(enemies),
                 IF inBand /\ MoveToEnemyScore(unit, distance) > best.score
                 THEN [best EXCEPT !.score = MoveToEnemyScore(unit, distance),
                                   !.targetUnit = <<enemy.unitData>>,
                                   !.targetPosition = <<enemy.position>>]
                 ELSE best)

evaluateMoveToEnemy(unit, position, enemies) ==
    MoveToEnemyLoop(unit, position, enemies,
                    [action |-> "move_to_enemy", score |-> 0, targetPosition |-> <<>>,
                     targetUnit |-> <<>>])

\* the ally loop of evaluateRetreat: the position of the first ally at the least
\* distance above 0, <<>> for none
RECURSIVE NearestAlly(_, _, _)
NearestAlly(position, allies, nearest) ==
    IF allies = <<>> THEN nearest
    ELSE LET distance == manhattanDistance(position, Head(allies).position)
             closer == /\ distance > 0
                       /\ \/ nearest = <<>>
                          \/ distance < manhattanDistance(position, nearest[1])
         IN  NearestAlly(position, Tail(allies),
                         IF closer THEN <<Head(allies).position>> ELSE nearest)

RECURSIVE SumOf(_, _)
SumOf(contextUnits, axis) ==
    IF contextUnits = <<>> THEN 0
    ELSE Head(contextUnits).position[axis] + SumOf(Tail(contextUnits), axis)

\* Math.max(0, Math.min(limit - 1, value))
Clamp(value, limit) == Max(0, Min(limit - 1, value))

evaluateRetreat(unit, position, enemies, allies) ==
    LET near(other) == manhattanDistance(position, other.position) <= unit.detectionRange
        nearbyEnemies == SelectSeq(enemies, near)
        nearbyAllies == SelectSeq(allies, near)
        retreatScore ==
            (IF 10 * unit.health < 3 * unit.maxHealth THEN 1470
             ELSE IF 10 * unit.health < 5 * unit.maxHealth THEN 840
             ELSE 0)
              + (IF Len(nearbyEnemies) > Len(nearbyAllies) + 1 THEN 630 ELSE 0)
              + (10 - unit.aggressiveness) * 63
        toAlly == NearestAlly(position, allies, <<>>)
        away(axis) == IF position[axis] * Len(nearbyEnemies) > SumOf(nearbyEnemies, axis)
                      THEN 2 ELSE -2
        retreatPosition ==
            IF toAlly # <<>> THEN toAlly
            ELSE IF Len(nearbyEnemies) > 0
                 THEN << <<Clamp(position[1] + away(1), mapWidth),
                           Clamp(position[2] + away(2), mapHeight)>> >>
                 ELSE <<>>
    IN  [action |-> "retreat", score |-> retreatScore, targetPosition |-> retreatPosition,
         targetUnit |-> <<>>]

\* evaluatePatrol scoring below idle
evaluatePatrolBelowIdle(unit, position, random) ==
    [action |-> "patrol", score |-> 105,
     targetPosition |-> << <<Clamp(position[1] + random.x, mapWidth),
                             Clamp(position[2] + random.y, mapHeight)>> >>,
     targetUnit |-> <<>>]

\* random holds the two offsets Math.floor(Math.random() * 7) - 3 gave
evaluatePatrol(unit, position, random) ==
    [action |-> "patrol", score |-> 420,
     targetPosition |-> << <<Clamp(position[1] + random.x, mapWidth),
                             Clamp(position[2] + random.y, mapHeight)>> >>,
     targetUnit |-> <<>>]

evaluateIdle ==
    [action |-> "idle", score |-> 210, targetPosition |-> <<>>, targetUnit |-> <<>>]

\* evaluations.sort((a, b) => a.score - b.score), the comparison the other
\* way round
SortByScoreAscending(evaluations) ==
    LET before(i, j) == \/ evaluations[i].score < evaluations[j].score
                        \/ evaluations[i].score = evaluations[j].score /\ i < j
        place(i) == 1 + Cardinality({j \in DOMAIN evaluations : before(j, i)})
    IN  [k \in DOMAIN evaluations |->
            evaluations[CHOOSE i \in DOMAIN evaluations : place(i) = k]]

\* evaluations.sort((a, b) => b.score - a.score): the sort is stable, so an
\* evaluation comes before those of a lower score and before the later ones
\* of its own score
SortByScore(evaluations) ==
    LET before(i, j) == \/ evaluations[i].score > evaluations[j].score
                        \/ evaluations[i].score = evaluations[j].score /\ i < j
        place(i) == 1 + Cardinality({j \in DOMAIN evaluations : before(j, i)})
    IN  [k \in DOMAIN evaluations |->
            evaluations[CHOOSE i \in DOMAIN evaluations : place(i) = k]]

evaluateBestAction(unit, position, enemies, allies, random) ==
    SortByScore(<< evaluateAttack(unit, position, enemies),
                   evaluateMoveToEnemy(unit, position, enemies),
                   evaluateRetreat(unit, position, enemies, allies),
                   evaluatePatrol(unit, position, random),
                   evaluateIdle >>)[1]

(***************************************************************************)
(* UnitController.  Its combat system is built with its own ledger and its *)
(* own supply network.  An operation yields the UnitActionResult, the unit *)
(* afterwards and the bases and the ledger afterwards.  A message built    *)
(* from numbers or names is kept as its fixed words.                       *)
(***************************************************************************)
\* a UnitActionResult with every optional field left out
NoResult ==
    [success |-> FALSE, newPosition |-> <<>>, targetUnit |-> <<>>,
     combatOccurred |-> FALSE, unitKilled |-> FALSE, message |-> "",
     resourcesConsumed |-> <<>>, diplomaticAction |-> <<>>]

\* a return that touched neither the bases nor the ledger; moved holds the
\* path executeMove asked for and the Path it got, <<>> when it did not run
Outcome(result, unit) ==
    [result |-> result, unit |-> unit, bases |-> bases, relations |-> relations,
     actionHistory |-> actionHistory, notified |-> notified, moved |-> <<>>]

\* FindNearestSupplyBaseNode.execute and getResult: <<>> for null
RECURSIVE NearestBase(_, _, _)
NearestBase(position, friendlyBases, nearest) ==
    IF friendlyBases = <<>> THEN nearest
    ELSE NearestBase(position, Tail(friendlyBases),
            IF manhattanDistance(position, Head(friendlyBases).position)
                  < manhattanDistance(position, nearest.position)
            THEN Head(friendlyBases) ELSE nearest)

FindNearestSupplyBaseNode(unit, position, supplyBases) ==
    LET friendlyBases == SelectSeq(supplyBases, LAMBDA base : base.faction = unit.faction)
    IN  IF friendlyBases = <<>> THEN <<>>
        ELSE <<NearestBase(position, Tail(friendlyBases), Head(friendlyBases)).position>>

executeAttack(attacker, attackerPos, defender, defenderPos) ==
    LET combat == resolveCombat(attacker, attackerPos, defender, defenderPos)
    IN  [result |-> [NoResult EXCEPT
                        !.success = TRUE,
                        !.targetUnit = <<defender>>,
                        !.combatOccurred = TRUE,
                        !.unitKilled = combat.result.isKill,
                        !.message = "Attacked",
                        !.resourcesConsumed =
                            <<[fuel |-> 0, ammo |-> combat.result.ammunitionConsumed]>>,
                        !.diplomaticAction = combat.result.diplomaticConsequence],
         unit |-> combat.attacker,
         bases |-> bases,
         relations |-> combat.relations,
         actionHistory |-> combat.actionHistory,
         notified |-> combat.notified,
         moved |-> <<>>]

\* executeMove; message is "" when the argument is left out
executeMove(unit, currentPos, targetPos, message) ==
    CHOOSE outcome \in {
        IF found.isNull \/ Len(found.path) <= 1
        THEN [Outcome([NoResult EXCEPT !.message = "No valid path found"], unit)
                 EXCEPT !.moved = <<[endPos |-> targetPos, found |-> found]>>]
        ELSE IF ~canUnitMove(unit, found.path).canMove
        THEN [Outcome([NoResult EXCEPT !.message = canUnitMove(unit, found.path).reason],
                      unit)
                 EXCEPT !.moved = <<[endPos |-> targetPos, found |-> found]>>]
        ELSE
        LET reachableIndex == Min(unit.movementPoints, Len(found.path) - 1)
            newPosition == found.path[reachableIndex + 1]
            resourceConsumption ==
                calculateMovementConsumption(unit, SubSeq(found.path, 1, reachableIndex + 1))
            baseAtNewPosition == getBaseAtPosition(bases, newPosition)
            entering == /\ baseAtNewPosition # <<>>
                        /\ baseAtNewPosition[1].faction # unit.faction
            capturing == entering /\ baseAtNewPosition[1].capturable
            entered == IF entering
                       THEN modifyRelation(relations, actionHistory, unit.faction,
                                           baseAtNewPosition[1].faction, -5, "ENTER_TERRITORY",
                                           <<unit.name, "entered territory controlled by",
                                             baseAtNewPosition[1].faction>>)
                       ELSE [relations |-> relations, actionHistory |-> actionHistory,
                             notified |-> notified]
            ledger == IF capturing
                      THEN modifyRelation(entered.relations, entered.actionHistory,
                                          unit.faction, baseAtNewPosition[1].faction, -50,
                                          "CAPTURE_BASE",
                                          <<unit.name, "captured", baseAtNewPosition[1].id>>)
                      ELSE entered
        IN  [result |-> [NoResult EXCEPT
                            !.success = TRUE,
                            !.newPosition = <<newPosition>>,
                            !.message = IF message # "" THEN message ELSE "Moved to",
                            !.resourcesConsumed =
                                <<[fuel |-> resourceConsumption.fuelConsumed, ammo |-> 0]>>,
                            !.diplomaticAction =
                                IF capturing THEN <<[type |-> "CAPTURE_BASE", value |-> -50]>>
                                ELSE IF entering
                                     THEN <<[type |-> "ENTER_TERRITORY", value |-> -5]>>
                                     ELSE <<>>],
             unit |-> [unit EXCEPT !.fuelCurrent = @ - resourceConsumption.fuelConsumed],
             bases |-> IF capturing
                       THEN captureBase(bases, baseAtNewPosition[1].id, unit.faction).bases
                       ELSE bases,
             relations |-> ledger.relations,
             actionHistory |-> ledger.actionHistory,
             notified |-> ledger.notified,
             moved |-> <<[endPos |-> targetPos, found |-> found]>>] :
        found \in {findPath(currentPos, targetPos, unit.movementType,
                            unit.movementPoints)}} : TRUE

executeRetreat(unit, currentPos, message) ==
    LET friendlyBases == getBasesByFaction(bases, unit.faction)
    IN  IF Len(friendlyBases) = 0
        THEN Outcome([NoResult EXCEPT !.message = "No friendly bases to retreat to"], unit)
        ELSE executeMove(unit, currentPos,
                         NearestBase(currentPos, Tail(friendlyBases),
                                     Head(friendlyBases)).position,
                         IF message # "" THEN message
                         ELSE "Retreating to nearest friendly base")

\* random.quarter is the angle Math.random() * Math.PI * 2 in quarter turns
executePatrol(unit, currentPos, targetPos, random) ==
    LET distance == manhattanDistance(targetPos, currentPos)
        patrolRadius == Min(unit.detectionRange, unit.movementPoints * 2)
        deltaX == CASE random.quarter = 0 -> patrolRadius
                    [] random.quarter = 2 -> -patrolRadius
                    [] OTHER -> 0
        deltaY == CASE random.quarter = 1 -> patrolRadius
                    [] random.quarter = 3 -> -patrolRadius
                    [] OTHER -> 0
    IN  executeMove(unit, currentPos,
                    IF distance > unit.detectionRange
                    THEN <<Clamp(currentPos[1] + deltaX, mapWidth),
                           Clamp(currentPos[2] + deltaY, mapHeight)>>
                    ELSE targetPos,
                    "Patrolling area")

\* the context processUnitTurn prepares from allUnits
Enemies(unit, allUnits) ==
    LET hostile(u) == getRelationshipStatus(relations, unit.faction, u.unit.faction)
                          \in {"war", "hostile"}
        picked == SelectSeq(allUnits, hostile)
    IN  [i \in 1 .. Len(picked) |->
            [unitData |-> picked[i].unit, position |-> picked[i].position]]

Allies(unit, allUnits) ==
    LET friend(u) ==
            /\ u.unit.id # unit.id
            /\ \/ getRelationshipStatus(relations, unit.faction, u.unit.faction)
                      \in {"friendly", "allied"}
               \/ u.unit.faction = unit.faction
        picked == SelectSeq(allUnits, friend)
    IN  [i \in 1 .. Len(picked) |->
            [unitData |-> picked[i].unit, position |-> picked[i].position]]

\* fuelCurrent < fuelMax * 0.3 || ammunitionCurrent < ammunitionMax * 0.3; the
\* products of the roster's maxima are whole or end in .5, so the doubles
\* compare as the decimals do
NeedsResupply(unit) ==
    \/ 10 * unit.fuelCurrent < 3 * unit.fuelMax
    \/ 10 * unit.ammunitionCurrent < 3 * unit.ammunitionMax

\* the switch on the decision of the utility AI
ExecuteDecision(unit, position, decision, random) ==
    CASE decision.action = "attack"
            /\ decision.targetPosition # <<>> /\ decision.targetUnit # <<>> ->
            IF ~canUnitAttack(unit).canAttack
            THEN executeRetreat(unit, position, "Retreating to resupply")
            ELSE executeAttack(unit, position, decision.targetUnit[1],
                               decision.targetPosition[1])
      [] decision.action = "move_to_enemy" /\ decision.targetPosition # <<>> ->
            LET path == findPath(position, decision.targetPosition[1],
                                 unit.movementType, unit.movementPoints)
            IN  IF ~path.isNull /\ ~canUnitMove(unit, path.path).canMove
                THEN executeRetreat(unit, position, "Retreating due to low fuel")
                ELSE executeMove(unit, position, decision.targetPosition[1], "")
      [] decision.action = "retreat" /\ decision.targetPosition # <<>> ->
            executeRetreat(unit, position, "Retreating from danger")
      [] decision.action = "patrol" /\ decision.targetPosition # <<>> ->
            executePatrol(unit, position, decision.targetPosition[1], random)
      [] decision.action = "idle" ->
            Outcome([NoResult EXCEPT !.success = TRUE, !.message = "Standing by"], unit)
      [] OTHER ->
            Outcome([NoResult EXCEPT !.success = TRUE, !.message = "No action available"],
                    unit)

\* what the supply check at the head of processUnitTurn returns with: "move"
\* for the run to the nearest own base, "resupply" for the resupply in place,
\* "none" when it falls through to the utility AI
SupplyStep(unit, position) ==
    LET supplyInfo == calculateUnitSupply(bases, unit, position)
    IN  IF ~NeedsResupply(unit) THEN "none"
        ELSE IF ~supplyInfo.inSupplyRange
        THEN IF FindNearestSupplyBaseNode(unit, position, bases) # <<>>
             THEN "move" ELSE "none"
        ELSE IF resupplyUnit(bases, unit, position).returned.resupplied
             THEN "resupply" ELSE "none"

processUnitTurn(unit, position, allUnits, random) ==
    IF unit.faction = "player" THEN Outcome(NoResult, unit)
    ELSE
    CASE SupplyStep(unit, position) = "move" ->
            executeMove(unit, position,
                        FindNearestSupplyBaseNode(unit, position, bases)[1],
                        "Moving to resupply")
      [] SupplyStep(unit, position) = "resupply" ->
            Outcome([NoResult EXCEPT !.success = TRUE, !.message = "Resupplied"],
                    resupplyUnit(bases, unit, position).unit)
      [] OTHER ->
            ExecuteDecision(unit, position,
                            evaluateBestAction(unit, position, Enemies(unit, allUnits),
                                               Allies(unit, allUnits), random),
                            random)

\* Math.random() is read only when the turn reaches the utility AI and patrol
\* comes first
ReadsRandom(unit, position, allUnits) ==
    /\ unit.faction # "player"
    /\ SupplyStep(unit, position) = "none"
    /\ evaluateBestAction(unit, position, Enemies(unit, allUnits),
                          Allies(unit, allUnits), [x |-> 0, y |-> 0, quarter |-> 0]).action
          = "patrol"

(***************************************************************************)
(* Unit turns: an AI unit and a player unit on an open map of the size     *)
(* GameManager generates, with the controller's supply network and ledger  *)
(* open to their public operations between the turns                       *)
(***************************************************************************)
\* a map of the size GameManager generates with every tile plains
OpenMap == [p \in (0 .. GameMapWidth - 1) \X (0 .. GameMapHeight - 1) |-> "plains"]

\* the AI unit, and where it stands: three tiles from the place of the depot
\* and four from the player headquarters, or four tiles from the place of the
\* depot and four from outpost-3
TurnUnitTypes == {"enemy-infantry", "enemy-tank"}
TurnPositions == { <<4, 4>>, <<9, 6>> }

\* where the player's infantry stands: on the player headquarters, next to
\* the first position, or on outpost-3
TargetPositions == { <<2, 2>>, <<5, 4>>, <<13, 6>> }

\* what Math.random() gave evaluatePatrol (offsets x, y) and executePatrol
\* (angle in quarter turns)
PatrolDraws ==
    { [x |-> 0, y |-> 0, quarter |-> 0],
      [x |-> -3, y |-> -2, quarter |-> 2],
      [x |-> 2, y |-> 1, quarter |-> 1] }

\* the array processAITurn hands to processUnitTurn
UnitsForAI ==
    << [unit |-> units.attacker, position |-> units.attacker.position],
       [unit |-> units.defender, position |-> units.defender.position] >>

InitTurn ==
    /\ tiles = OpenMap
    /\ mapWidth = GameMapWidth
    /\ mapHeight = GameMapHeight
    /\ rangeCall = NoCall
    /\ rangeResult = <<>>
    /\ pathCall = NoCall
    /\ pathResult = PathNull
    /\ relations = NewRelations
    /\ actionHistory = <<>>
    /\ actionListeners = <<>>
    /\ notified = <<>>
    /\ dipCall = NoCall
    /\ bases = NewBases(GameMapWidth, GameMapHeight)
    /\ hasSupply = TRUE
    /\ hasDiplomacy = TRUE
    /\ \E unitType \in TurnUnitTypes, position \in TurnPositions,
          target \in TargetPositions :
       \E fuel \in WornFuel \cup {UnitTypes[unitType].fuelMax},
          ammunition \in WornAmmunition \cup {UnitTypes[unitType].ammunitionMax} :
          /\ fuel = UnitTypes[unitType].fuelMax
             \/ ammunition = UnitTypes[unitType].ammunitionMax
          /\ units = [attacker |->
                         [UnitTypes[unitType] EXCEPT !.fuelCurrent = fuel,
                                                     !.ammunitionCurrent = ammunition]
                             @@ [position |-> position],
                      defender |-> UnitTypes["infantry"] @@ [position |-> target]]
    /\ combatCall = NoCall
    /\ combatResult = NoCall
    /\ supplyCall = NoCall
    /\ supplyResult = NoCall
    /\ turnCall = NoCall
    /\ turnResult = NoCall
    /\ calls = 0
    /\ AppIdle

\* processUnitTurn for one unit, and its caller storing result.newPosition as
\* the unit's position.  The turn makes its own calls on the supply network
\* and on its combat system, so the records of the last ones made from
\* outside are cleared.  pathCall and pathResult hold the findPath call of the
\* turn's executeMove, if it ran; turnCall.decision is what the utility AI
\* decided, with action "none" when the turn did not reach it.
ProcessUnitTurn ==
    /\ calls < MaxCalls
    /\ \E u \in DOMAIN units :
       \E random \in IF ReadsRandom(units[u], units[u].position, UnitsForAI)
                     THEN PatrolDraws
                     ELSE {[x |-> 0, y |-> 0, quarter |-> 0]} :
       \E outcome \in {processUnitTurn(units[u], units[u].position, UnitsForAI, random)} :
              /\ units' = [units EXCEPT ![u] =
                              [outcome.unit EXCEPT !.position =
                                  IF outcome.result.newPosition # <<>>
                                  THEN outcome.result.newPosition[1] ELSE @]]
              /\ bases' = outcome.bases
              /\ relations' = outcome.relations
              /\ actionHistory' = outcome.actionHistory
              /\ notified' = outcome.notified
              /\ turnCall' = [op |-> "processUnitTurn", id |-> u, unit |-> units[u],
                              bases |-> bases, relations |-> relations,
                              actionHistory |-> actionHistory,
                              decision |->
                                  IF units[u].faction # "player"
                                        /\ SupplyStep(units[u], units[u].position) = "none"
                                  THEN evaluateBestAction(units[u], units[u].position,
                                                          Enemies(units[u], UnitsForAI),
                                                          Allies(units[u], UnitsForAI), random)
                                  ELSE [action |-> "none", score |-> 0,
                                        targetPosition |-> <<>>, targetUnit |-> <<>>]]
              /\ turnResult' = outcome.result
              /\ pathCall' = IF outcome.moved = <<>> THEN NoCall
                             ELSE [op |-> "findPath", startPos |-> units[u].position,
                                   endPos |-> outcome.moved[1].endPos,
                                   movementType |-> units[u].movementType,
                                   maxMovementPoints |-> units[u].movementPoints]
              /\ pathResult' = IF outcome.moved = <<>> THEN PathNull
                               ELSE outcome.moved[1].found
    /\ supplyCall' = NoCall
    /\ supplyResult' = NoCall
    /\ combatCall' = NoCall
    /\ combatResult' = NoCall
    /\ calls' = calls + 1
    /\ UNCHANGED <<appVars, tiles, mapWidth, mapHeight, rangeCall, rangeResult, actionListeners, dipCall, hasSupply, hasDiplomacy>>

NextTurn == ProcessUnitTurn \/ ResolveCombat \/ ResupplyUnit \/ AddBase

SpecTurn == InitTurn /\ [][NextTurn]_vars

\* captures from outside between the turns
NextCapture == CaptureBase \/ ProcessUnitTurn

SpecCapture == InitTurn /\ [][NextCapture]_vars

(***************************************************************************)
(* Claims about captures and unit turns.  turnCall holds the unit, the     *)
(* bases and the relations as they were when processUnitTurn was entered.  *)
(***************************************************************************)
\* the indices of the bases with this id
BasesWithId(allBases, baseId) == {i \in 1 .. Len(allBases) : allBases[i].id = baseId}

\* C13: captureBase returns false and changes no base when the id is unknown
\* or the base is not capturable; on a capturable base it returns true, the
\* owner becomes the given faction whatever it was before, and every other
\* base and every other field of that base is unchanged; so over any sequence
\* of captureBase calls and unit turns the two headquarters keep their owners.
C13_CaptureOnlyCapturableBases ==
    /\ \A i \in 1 .. Len(bases) :
          /\ bases[i].id = "player-hq" => bases[i].faction = "player"
          /\ bases[i].id = "enemy-hq" => bases[i].faction = "enemy"
    /\ BasesWithId(bases, "player-hq") # {}
    /\ BasesWithId(bases, "enemy-hq") # {}
    /\ supplyCall.op = "captureBase" =>
          LET before == supplyCall.bases
              named == BasesWithId(before, supplyCall.baseId)
          IN  IF named = {} \/ \A i \in named : ~before[i].capturable
              THEN /\ supplyResult.returned = FALSE
                   /\ bases = before
              ELSE /\ supplyResult.returned = TRUE
                   /\ Len(bases) = Len(before)
                   /\ \A i \in 1 .. Len(before) :
                         IF i \in named
                         THEN /\ bases[i].faction = supplyCall.newFaction
                              /\ [bases[i] EXCEPT !.faction = before[i].faction] = before[i]
                         ELSE bases[i] = before[i]

\* the central outpost, held by the enemy after one capture, is handed to the
\* player by the next
C13_Witness ==
    /\ supplyCall.op = "captureBase"
    /\ supplyCall.baseId = "outpost-1"
    /\ supplyCall.newFaction = "player"
    /\ \E i \in BasesWithId(supplyCall.bases, "outpost-1") :
          /\ supplyCall.bases[i].faction = "enemy"
          /\ bases[i].faction = "player"
    /\ supplyResult.returned = TRUE

\* C15: starting from fuel and ammunition within [0, max], after any sequence
\* of processUnitTurn, resolveCombat and resupplyUnit calls every unit's fuel
\* is within [0, fuelMax] and its ammunition within [0, ammunitionMax].
C15_ResourcesStayWithinBounds ==
    \A u \in DOMAIN units :
        /\ 0 <= units[u].fuelCurrent
        /\ units[u].fuelCurrent <= units[u].fuelMax
        /\ 0 <= units[u].ammunitionCurrent
        /\ units[u].ammunitionCurrent <= units[u].ammunitionMax

\* a unit that moved on its turn and then attacked has spent fuel and
\* ammunition and holds some of each
C15_Witness ==
    /\ turnCall.op = "processUnitTurn"
    /\ turnResult.newPosition # <<>>
    /\ combatCall.op = "resolveCombat"
    /\ units[turnCall.id].fuelCurrent < turnCall.unit.fuelCurrent
    /\ units.attacker.ammunitionCurrent < combatCall.attacker.ammunitionCurrent
    /\ C15_ResourcesStayWithinBounds

\* the own bases nearest to the unit, in range or not
NearestFriendlyBases(allBases, unit) ==
    {i \in 1 .. Len(allBases) :
        /\ allBases[i].faction = unit.faction
        /\ \A j \in 1 .. Len(allBases) :
              allBases[j].faction = unit.faction =>
                 manhattanDistance(unit.position, allBases[i].position)
                    <= manhattanDistance(unit.position, allBases[j].position)}

\* C20: a non-player unit with fuel or ammunition below 30% of its maximum,
\* outside the supply range of all its own bases, whose faction owns a base it
\* can reach with the fuel it has (on the open map, one that is no more tiles
\* away than the fuel pays for), ends its turn strictly closer to the nearest
\* friendly base.
C20_LowSupplyUnitMovesTowardBase ==
    turnCall.op = "processUnitTurn" =>
        LET before == turnCall.unit
            after == units[turnCall.id]
            low == \/ 10 * before.fuelCurrent < 3 * before.fuelMax
                   \/ 10 * before.ammunitionCurrent < 3 * before.ammunitionMax
            nearest == NearestFriendlyBases(turnCall.bases, before)
            reachable(i) ==
                manhattanDistance(before.position, turnCall.bases[i].position)
                    * before.fuelConsumptionRate <= before.fuelCurrent
        IN  ( /\ before.faction # "player"
              /\ low
              /\ OwnBasesInRange(turnCall.bases, before) = {}
              /\ \E i \in nearest : reachable(i) )
            => \A i \in nearest :
                  manhattanDistance(after.position, turnCall.bases[i].position)
                     < manhattanDistance(before.position, turnCall.bases[i].position)

\* the case the code serves: the base is within one turn's movement and the
\* unit ends on it
C20_MovedToBaseWithinReach ==
    /\ turnCall.op = "processUnitTurn"
    /\ turnResult.message = "Moving to resupply"
    /\ OwnBasesInRange(turnCall.bases, turnCall.unit) = {}
    /\ \E i \in NearestFriendlyBases(turnCall.bases, turnCall.unit) :
          units[turnCall.id].position = turnCall.bases[i].position

(***************************************************************************)
(* Claims about moves.  They speak of the turn while its record is the     *)
(* last thing that touched the supply network: supplyCall is cleared by    *)
(* the turn and set by every call made from outside.                       *)
(***************************************************************************)
\* C21: a successful move puts the unit on path[min(movementPoints, path
\* length - 1)] of the path findPath computed and lowers its fuel by exactly
\* the tiles traversed (the start excluded) times its fuel rate; a move that
\* fails changes neither the position nor the fuel.
C21_MoveFollowsPathAndPaysFuel ==
    (turnCall.op = "processUnitTurn" /\ supplyCall.op = "none" /\ pathCall.op = "findPath") =>
        LET before == turnCall.unit
            after == units[turnCall.id]
            path == pathResult.path
            reached == Min(before.movementPoints, Len(path) - 1)
        IN  IF turnResult.success
            THEN /\ ~pathResult.isNull
                 /\ Len(path) > 1
                 /\ path[1] = before.position
                 /\ turnResult.newPosition = <<path[reached + 1]>>
                 /\ after.position = path[reached + 1]
                 /\ after.fuelCurrent
                       = before.fuelCurrent - reached * before.fuelConsumptionRate
            ELSE /\ turnResult.newPosition = <<>>
                 /\ after.position = before.position
                 /\ after.fuelCurrent = before.fuelCurrent

\* a tank went four tiles and paid two units of fuel for each
C21_Witness ==
    /\ turnCall.op = "processUnitTurn"
    /\ supplyCall.op = "none"
    /\ pathCall.op = "findPath"
    /\ turnResult.success
    /\ Len(pathResult.path) = 5
    /\ turnCall.unit.fuelConsumptionRate = 2
    /\ units[turnCall.id].position = pathResult.path[5]
    /\ units[turnCall.id].fuelCurrent = turnCall.unit.fuelCurrent - 8

\* a move refused for lack of fuel, the path being there
C21_RefusedMoveWitness ==
    /\ turnCall.op = "processUnitTurn"
    /\ supplyCall.op = "none"
    /\ pathCall.op = "findPath"
    /\ ~turnResult.success
    /\ Len(pathResult.path) > 1
    /\ units[turnCall.id] = turnCall.unit

\* C22: a move that ends on a tile holding a base of another faction lowers
\* the relation between the two factions by 5 with an ENTER_TERRITORY action;
\* if the base is capturable its ownership passes to the mover's faction and
\* the penalty applied to the relation and reported for the move is the -50
\* CAPTURE_BASE penalty instead of the -5.
C22_CapturePenaltySupersedes ==
    (turnCall.op = "processUnitTurn" /\ supplyCall.op = "none"
        /\ turnResult.newPosition # <<>>) =>
        LET before == turnCall.unit
            held == getBaseAtPosition(turnCall.bases, turnResult.newPosition[1])
            old == getRelation(turnCall.relations, before.faction, held[1].faction)
            now == getRelation(relations, before.faction, held[1].faction)
            added == SubSeq(actionHistory, Len(turnCall.actionHistory) + 1,
                            Len(actionHistory))
        IN  (held # <<>> /\ held[1].faction # before.faction) =>
                IF held[1].capturable
                THEN /\ getBaseAtPosition(bases, turnResult.newPosition[1])[1].faction
                            = before.faction
                     /\ now = Max(-100, old - 50)
                     /\ turnResult.diplomaticAction
                            = <<[type |-> "CAPTURE_BASE", value |-> -50]>>
                ELSE /\ bases = turnCall.bases
                     /\ now = Max(-100, old - 5)
                     /\ Len(added) = 1
                     /\ added[1].type = "ENTER_TERRITORY"
                     /\ added[1].value = -5
                     /\ turnResult.diplomaticAction
                            = <<[type |-> "ENTER_TERRITORY", value |-> -5]>>

\* what the code does on a capture: both penalties reach the relation, the
\* first one for entering and then the one for capturing
C22_CaptureAppliesBothPenalties ==
    /\ turnCall.op = "processUnitTurn"
    /\ supplyCall.op = "none"
    /\ turnResult.diplomaticAction = <<[type |-> "CAPTURE_BASE", value |-> -50]>>
    /\ Len(actionHistory) = Len(turnCall.actionHistory) + 2
    /\ actionHistory[Len(actionHistory) - 1].type = "ENTER_TERRITORY"
    /\ actionHistory[Len(actionHistory)].type = "CAPTURE_BASE"
    /\ getRelation(relations, "enemy", "neutral")
          = getRelation(turnCall.relations, "enemy", "neutral") - 55

\* C23: when the AI chose attack and the unit's ammunition is below its
\* per-attack cost, no combat takes place, no ammunition is consumed, no
\* diplomatic penalty is applied and the unit retreats toward the nearest
\* friendly base; a pursuit whose path needs more fuel than the unit has
\* falls back to the retreat likewise.
C23_OutOfAmmoOrFuelRetreats ==
    (turnCall.op = "processUnitTurn" /\ supplyCall.op = "none" /\ combatCall.op = "none") =>
        LET before == turnCall.unit
            after == units[turnCall.id]
            decision == turnCall.decision
            nearest == NearestFriendlyBases(turnCall.bases, before)
            noAmmunition ==
                /\ decision.action = "attack"
                /\ decision.targetUnit # <<>>
                /\ before.ammunitionCurrent < before.ammunitionConsumptionRate
            noFuel ==
                /\ decision.action = "move_to_enemy"
                /\ decision.targetPosition # <<>>
                /\ LET path == findPath(before.position, decision.targetPosition[1],
                                        before.movementType, before.movementPoints)
                   IN  /\ ~path.isNull
                       /\ calculateMovementConsumption(before, path.path).fuelConsumed
                             > before.fuelCurrent
        IN  (noAmmunition \/ noFuel) =>
                /\ ~turnResult.combatOccurred
                /\ after.ammunitionCurrent = before.ammunitionCurrent
                /\ relations = turnCall.relations
                /\ actionHistory = turnCall.actionHistory
                /\ nearest # {}
                /\ \A i \in nearest :
                      manhattanDistance(after.position, turnCall.bases[i].position)
                         < manhattanDistance(before.position, turnCall.bases[i].position)

\* the retreat the code serves: out of ammunition next to its target, the unit
\* ends on a base of its own three tiles away
C23_RetreatedToBaseWithinReach ==
    /\ turnCall.op = "processUnitTurn"
    /\ supplyCall.op = "none"
    /\ combatCall.op = "none"
    /\ turnCall.decision.action = "attack"
    /\ turnCall.unit.ammunitionCurrent < turnCall.unit.ammunitionConsumptionRate
    /\ turnResult.message = "Retreating to resupply"
    /\ \E i \in NearestFriendlyBases(turnCall.bases, turnCall.unit) :
          units[turnCall.id].position = turnCall.bases[i].position

\* the pursuit given up for lack of fuel, and the retreat refused for it too
C23_PursuitWithoutFuelStays ==
    /\ turnCall.op = "processUnitTurn"
    /\ supplyCall.op = "none"
    /\ combatCall.op = "none"
    /\ turnCall.decision.action = "move_to_enemy"
    /\ turnCall.unit.fuelCurrent = 0
    /\ ~turnResult.success
    /\ pathCall.op = "findPath"
    /\ \E i \in NearestFriendlyBases(turnCall.bases, turnCall.unit) :
          pathCall.endPos = turnCall.bases[i].position
    /\ units[turnCall.id] = turnCall.unit

(***************************************************************************)
(* The utility AI called on contexts of its own: a unit at the middle of   *)
(* the open map, up to two enemies in a column below it and at most one    *)
(* ally beside it.  The functions keep no state, so one call is made.      *)
(***************************************************************************)
\* the contexts: the deciding unit is of the roster or an infantry that is not
\* aggressive at all, sound, at 45 or at 20 health; the enemies stand one, two,
\* three, five and seven tiles away, sound or at 20 health
UtilityContexts ==
    LET sound == {UnitTypes["infantry"], UnitTypes["enemy-infantry"],
                  UnitTypes["neutral-outpost"],
                  [UnitTypes["infantry"] EXCEPT !.aggressiveness = 0]}
        hit(types, healths) ==
            {[unit EXCEPT !.health = health] : unit \in types, health \in healths}
        enemy == {[unitData |-> unitData, position |-> position] :
                     unitData \in {UnitTypes["infantry"], UnitTypes["tank"]}
                                     \cup hit({UnitTypes["infantry"], UnitTypes["tank"]}, {20}),
                     position \in { <<9, 7>>, <<9, 8>>, <<9, 9>>, <<9, 11>>, <<9, 13>> }}
    IN  [unit : sound \cup hit(sound, {20, 45}),
         position : { <<9, 6>> },
         enemies : {<<>>} \cup {<<e>> : e \in enemy} \cup {<<e, f>> : e \in enemy, f \in enemy},
         allies : {<<>>, <<[unitData |-> UnitTypes["enemy-infantry"],
                            position |-> <<8, 6>>]>>}]

InitUtility ==
    /\ tiles = OpenMap
    /\ mapWidth = GameMapWidth
    /\ mapHeight = GameMapHeight
    /\ rangeCall = NoCall
    /\ rangeResult = <<>>
    /\ pathCall = NoCall
    /\ pathResult = PathNull
    /\ relations = NewRelations
    /\ actionHistory = <<>>
    /\ actionListeners = <<>>
    /\ notified = <<>>
    /\ dipCall = NoCall
    /\ bases = NewBases(GameMapWidth, GameMapHeight)
    /\ hasSupply = TRUE
    /\ hasDiplomacy = TRUE
    /\ units = [attacker |-> UnitTypes["enemy-infantry"] @@ [position |-> <<9, 6>>],
                defender |-> UnitTypes["infantry"] @@ [position |-> <<9, 7>>]]
    /\ combatCall = NoCall
    /\ combatResult = NoCall
    /\ supplyCall = NoCall
    /\ supplyResult = NoCall
    /\ turnCall = NoCall
    /\ turnResult = NoCall
    /\ calls = 0
    /\ AppIdle

EvaluateAttack ==
    /\ turnCall = NoCall
    /\ \E context \in UtilityContexts :
          /\ turnCall' = [op |-> "evaluateAttack", context |-> context]
          /\ turnResult' = evaluateAttack(context.unit, context.position, context.enemies)
    /\ UNCHANGED <<appVars, pathVars, dipVars, combatVars, supplyVars, calls>>

EvaluateMoveToEnemy ==
    /\ turnCall = NoCall
    /\ \E context \in UtilityContexts :
          /\ turnCall' = [op |-> "evaluateMoveToEnemy", context |-> context]
          /\ turnResult' = evaluateMoveToEnemy(context.unit, context.position,
                                               context.enemies)
    /\ UNCHANGED <<appVars, pathVars, dipVars, combatVars, supplyVars, calls>>

EvaluateBestAction ==
    /\ turnCall = NoCall
    /\ \E context \in UtilityContexts, random \in PatrolDraws :
          /\ turnCall' = [op |-> "evaluateBestAction", context |-> context,
                          random |-> random]
          /\ turnResult' = evaluateBestAction(context.unit, context.position,
                                              context.enemies, context.allies, random)
    /\ UNCHANGED <<appVars, pathVars, dipVars, combatVars, supplyVars, calls>>

NextUtility == EvaluateAttack \/ EvaluateMoveToEnemy \/ EvaluateBestAction

SpecUtility == InitUtility /\ [][NextUtility]_vars

\* C24: evaluateBestAction returns a candidate whose score is the maximum over
\* the five candidates attack, pursue, retreat, patrol, idle, and among the
\* candidates of that score the one earliest in this order.
C24_BestIsFirstOfHighestScore ==
    turnCall.op = "evaluateBestAction" =>
        LET context == turnCall.context
            evaluations ==
                << evaluateAttack(context.unit, context.position, context.enemies),
                   evaluateMoveToEnemy(context.unit, context.position, context.enemies),
                   evaluateRetreat(context.unit, context.position, context.enemies,
                                   context.allies),
                   evaluatePatrol(context.unit, context.position, turnCall.random),
                   evaluateIdle >>
        IN  \E i \in 1 .. 5 :
               /\ turnResult = evaluations[i]
               /\ \A j \in 1 .. 5 : evaluations[j].score <= evaluations[i].score
               /\ \A j \in 1 .. i - 1 : evaluations[j].score < evaluations[i].score

\* attack and retreat both score 0.7, the highest, and attack is returned: the
\* calm infantry below half of its health has a weak infantry next to it
C24_Witness ==
    /\ turnCall.op = "evaluateBestAction"
    /\ turnCall.context.unit.aggressiveness = 0
    /\ turnResult.action = "attack"
    /\ turnResult.score = 1470
    /\ evaluateRetreat(turnCall.context.unit, turnCall.context.position,
                       turnCall.context.enemies, turnCall.context.allies).score = 1470

\* the pursue score as the claim gives it, in 2100ths
C25_ClaimedScore(unit, distance) ==
    unit.aggressiveness * 126
      + unit.sensorWeight * 63
      + (IF 10 * unit.health > 7 * unit.maxHealth THEN 420 ELSE -210)
      + (420 * (unit.detectionRange - distance)) \div unit.detectionRange

\* C25: for an enemy beyond attack range but within detection range the
\* pursue score is 0.6 x aggressiveness + 0.3 x sensorWeight + (0.2 if the own
\* health ratio is above 0.7, else -0.1) + (1 - distance / detectionRange)
\* x 0.2, and the score of the pursue candidate is the maximum of it over
\* such enemies.
C25_PursueScoreAsClaimed ==
    turnCall.op = "evaluateMoveToEnemy" =>
        LET context == turnCall.context
            distance(i) == manhattanDistance(context.position, context.enemies[i].position)
            band == {i \in DOMAIN context.enemies :
                        /\ distance(i) > context.unit.attackRange
                        /\ distance(i) <= context.unit.detectionRange}
        IN  band # {} =>
               /\ \E i \in band :
                     turnResult.score = C25_ClaimedScore(context.unit, distance(i))
               /\ \A i \in band :
                     C25_ClaimedScore(context.unit, distance(i)) <= turnResult.score

\* what the code computes: the last term is 1 - (distance / detectionRange)
\* x 0.2, which is 0.8 more; an infantry three tiles from its only enemy
\* scores 1.59 where the claim gives 0.79
C25_CodeScoreIsHigher ==
    /\ turnCall.op = "evaluateMoveToEnemy"
    /\ turnCall.context.unit = UnitTypes["infantry"]
    /\ Len(turnCall.context.enemies) = 1
    /\ turnCall.context.enemies[1].position = <<9, 9>>
    /\ C25_ClaimedScore(turnCall.context.unit, 3) = 1659
    /\ turnResult.score = 3339

\* C26: the attack candidate only ever targets an enemy within the unit's
\* attack range, and whenever at least one enemy is within attack range its
\* target is the in-range enemy with the highest attack score and its score
\* is that enemy's score.
C26_AttackTargetsBestInRange ==
    turnCall.op = "evaluateAttack" =>
        LET context == turnCall.context
            inRange == {i \in DOMAIN context.enemies :
                           manhattanDistance(context.position, context.enemies[i].position)
                              <= context.unit.attackRange}
            targets(i) == /\ turnResult.targetUnit = <<context.enemies[i].unitData>>
                          /\ turnResult.targetPosition = <<context.enemies[i].position>>
        IN  /\ turnResult.targetUnit # <<>> => \E i \in inRange : targets(i)
            /\ inRange # {} =>
                  \E i \in inRange :
                     /\ targets(i)
                     /\ turnResult.score = AttackScore(context.unit, context.enemies[i])
                     /\ \A j \in inRange :
                           AttackScore(context.unit, context.enemies[j])
                              <= AttackScore(context.unit, context.enemies[i])

\* C26 as the code has it: the target is within attack range, and whenever at
\* least one enemy within attack range has an attack score above 0 the target
\* is an in-range enemy with the highest attack score and the candidate has
\* that score; when no in-range enemy scores above 0 there is no target and
\* the score is 0.
C26_AttackTargetsBestPositiveInRange ==
    turnCall.op = "evaluateAttack" =>
        LET context == turnCall.context
            inRange == {i \in DOMAIN context.enemies :
                           manhattanDistance(context.position, context.enemies[i].position)
                              <= context.unit.attackRange}
            targets(i) == /\ turnResult.targetUnit = <<context.enemies[i].unitData>>
                          /\ turnResult.targetPosition = <<context.enemies[i].position>>
        IN  IF \E i \in inRange : AttackScore(context.unit, context.enemies[i]) > 0
            THEN \E i \in inRange :
                     /\ targets(i)
                     /\ turnResult.score = AttackScore(context.unit, context.enemies[i])
                     /\ \A j \in inRange :
                           AttackScore(context.unit, context.enemies[j])
                              <= AttackScore(context.unit, context.enemies[i])
            ELSE /\ turnResult.targetUnit = <<>>
                 /\ turnResult.targetPosition = <<>>
                 /\ turnResult.score = 0

\* of two enemies in range the second, scoring higher, is the target
C26_Witness ==
    /\ turnCall.op = "evaluateAttack"
    /\ Len(turnCall.context.enemies) = 2
    /\ turnCall.context.enemies[1].position = <<9, 7>>
    /\ turnCall.context.enemies[2].position = <<9, 8>>
    /\ AttackScore(turnCall.context.unit, turnCall.context.enemies[1])
          < AttackScore(turnCall.context.unit, turnCall.context.enemies[2])
    /\ turnResult.targetPosition = << <<9, 8>> >>
    /\ turnResult.score = AttackScore(turnCall.context.unit, turnCall.context.enemies[2])

\* the sound outpost with a sound tank next to it scores -0.05 against it and
\* has no target
C26_NoTargetInRange ==
    /\ turnCall.op = "evaluateAttack"
    /\ turnCall.context.unit = UnitTypes["neutral-outpost"]
    /\ Len(turnCall.context.enemies) = 1
    /\ turnCall.context.enemies[1].position = <<9, 7>>
    /\ AttackScore(turnCall.context.unit, turnCall.context.enemies[1]) = -105
    /\ turnResult.targetUnit = <<>>
    /\ turnResult.score = 0

(***************************************************************************)
(* BehaviorTree.  A node is a record: a leaf stands for an action or a     *)
(* condition whose execute returns a fixed state.  execute yields the      *)
(* state returned, which is the node's _state afterwards, and ran, the     *)
(* names of the leaves executed in the order of their execution.           *)
(***************************************************************************)
NodeState == {"SUCCESS", "FAILURE", "RUNNING"}

Node(kind, name, returns, children, requiredSuccesses) ==
    [kind |-> kind, name |-> name, returns |-> returns, children |-> children,
     requiredSuccesses |-> requiredSuccesses]

RECURSIVE execute(_)
RECURSIVE SelectorNode(_, _)
RECURSIVE SequenceNode(_, _)
RECURSIVE ParallelNode(_, _, _, _)

\* the loop of SelectorNode.execute over the children left
SelectorNode(children, ran) ==
    IF children = <<>> THEN [state |-> "FAILURE", ran |-> ran]
    ELSE CHOOSE result \in {
            IF child.state # "FAILURE"
            THEN [state |-> child.state, ran |-> ran \o child.ran]
            ELSE SelectorNode(Tail(children), ran \o child.ran) :
            child \in {execute(Head(children))}} : TRUE

\* the loop of SequenceNode.execute over the children left
SequenceNode(children, ran) ==
    IF children = <<>> THEN [state |-> "SUCCESS", ran |-> ran]
    ELSE CHOOSE result \in {
            IF child.state # "SUCCESS"
            THEN [state |-> child.state, ran |-> ran \o child.ran]
            ELSE SequenceNode(Tail(children), ran \o child.ran) :
            child \in {execute(Head(children))}} : TRUE

\* an inverter that hands its child's state on
InverterNodeUnchanged(child) == child

InverterNode(child) ==
    [state |-> IF child.state = "SUCCESS" THEN "FAILURE"
               ELSE IF child.state = "FAILURE" THEN "SUCCESS"
               ELSE child.state,
     ran |-> child.ran]

\* the loop of ParallelNode.execute over the children left
ParallelNode(children, requiredSuccesses, successCount, ran) ==
    IF children = <<>>
    THEN [state |-> IF successCount >= requiredSuccesses THEN "SUCCESS" ELSE "FAILURE",
          ran |-> ran]
    ELSE CHOOSE result \in {
            IF child.state = "RUNNING"
            THEN [state |-> "RUNNING", ran |-> ran \o child.ran]
            ELSE ParallelNode(Tail(children), requiredSuccesses,
                              IF child.state = "SUCCESS"
                              THEN successCount + 1 ELSE successCount,
                              ran \o child.ran) :
            child \in {execute(Head(children))}} : TRUE

execute(node) ==
    CASE node.kind = "leaf" -> [state |-> node.returns, ran |-> <<node.name>>]
      [] node.kind = "inverter" -> InverterNode(execute(node.children[1]))
      [] node.kind = "selector" -> SelectorNode(node.children, <<>>)
      [] node.kind = "sequence" -> SequenceNode(node.children, <<>>)
      [] node.kind = "parallel" ->
            ParallelNode(node.children, node.requiredSuccesses, 0, <<>>)

CheckEnemyByDiplomacyNode(unit, position, others, relationshipStatus, range) ==
    LET effective == IF range > 0 THEN range ELSE unit.detectionRange
        counted(other) ==
            /\ ~ ( /\ relationshipStatus \in {"war", "hostile"}
                   /\ other.unitData.faction = unit.faction )
            /\ manhattanDistance(position, other.position) <= effective
    IN  IF Len(SelectSeq(others, counted)) > 0 THEN "SUCCESS" ELSE "FAILURE"

\* the trees executed: an inverter over a leaf, and a selector, a sequence or
\* a parallel node (threshold 0..3) over up to three children, each a leaf or
\* an inverter over a leaf; the leaf at place i is named i
TreeNodes ==
    LET leaf(i) == {Node("leaf", i, returns, <<>>, 0) : returns \in NodeState}
        child(i) == leaf(i) \cup {Node("inverter", 0, "FAILURE", <<l>>, 0) : l \in leaf(i)}
        lists == {<<>>} \cup {<<a>> : a \in child(1)}
                    \cup {<<a, b>> : a \in child(1), b \in child(2)}
                    \cup {<<a, b, c>> : a \in child(1), b \in child(2), c \in child(3)}
    IN  {Node("inverter", 0, "FAILURE", <<l>>, 0) : l \in leaf(1)}
           \cup {Node(kind, 0, "FAILURE", children, 0) :
                    kind \in {"selector", "sequence"}, children \in lists}
           \cup {Node("parallel", 0, "FAILURE", children, requiredSuccesses) :
                    children \in lists, requiredSuccesses \in 0 .. 3}

Execute ==
    /\ turnCall = NoCall
    /\ \E node \in TreeNodes :
          /\ turnCall' = [op |-> "execute", node |-> node]
          /\ turnResult' = execute(node)
    /\ UNCHANGED <<appVars, pathVars, dipVars, combatVars, supplyVars, calls>>

\* a CheckEnemyByDiplomacyNode built for a sound unit and executed; range -1
\* and 0 stand for the detection range
ExecuteCheckEnemyByDiplomacy ==
    /\ turnCall = NoCall
    /\ \E context \in {c \in UtilityContexts :
                          c.allies = <<>> /\ c.unit.health = c.unit.maxHealth},
          relationshipStatus \in {"war", "hostile", "neutral", "friendly", "allied"},
          range \in {-1, 0, 2} :
          /\ turnCall' = [op |-> "CheckEnemyByDiplomacyNode", unit |-> context.unit,
                          position |-> context.position, units |-> context.enemies,
                          relationshipStatus |-> relationshipStatus, range |-> range]
          /\ turnResult' = [state |-> CheckEnemyByDiplomacyNode(context.unit,
                                          context.position, context.enemies,
                                          relationshipStatus, range)]
    /\ UNCHANGED <<appVars, pathVars, dipVars, combatVars, supplyVars, calls>>

NextTree == Execute \/ ExecuteCheckEnemyByDiplomacy

SpecTree == InitUtility /\ [][NextTree]_vars

\* the states the children of the executed node return, and the leaves run
\* by executing the first count of them
ChildStates == [i \in DOMAIN turnCall.node.children |-> execute(turnCall.node.children[i]).state]

RECURSIVE RanBy(_)
RanBy(count) ==
    IF count = 0 THEN <<>>
    ELSE RanBy(count - 1) \o execute(turnCall.node.children[count]).ran

\* C27: a selector executes its children in declaration order, returns the
\* state of the first child that does not fail without executing any later
\* child, and returns failure if all fail or there are none; a sequence
\* executes them in declaration order, returns the state of the first child
\* that does not succeed without executing any later child, and returns
\* success if all succeed or there are none; an inverter swaps success and
\* failure and passes running through.
C27_SelectorSequenceInverter ==
    turnCall.op = "execute" =>
        LET node == turnCall.node
            count == Len(node.children)
            stops(passing) == {i \in 1 .. count : ChildStates[i] # passing}
            first(passing) == CHOOSE i \in stops(passing) :
                                 \A j \in stops(passing) : i <= j
            shortCircuit(passing) ==
                IF stops(passing) = {}
                THEN turnResult = [state |-> passing, ran |-> RanBy(count)]
                ELSE turnResult = [state |-> ChildStates[first(passing)],
                                   ran |-> RanBy(first(passing))]
        IN  /\ node.kind = "selector" => shortCircuit("FAILURE")
            /\ node.kind = "sequence" => shortCircuit("SUCCESS")
            /\ node.kind = "inverter" =>
                  /\ turnResult.ran = RanBy(1)
                  /\ turnResult.state =
                        CASE ChildStates[1] = "SUCCESS" -> "FAILURE"
                          [] ChildStates[1] = "FAILURE" -> "SUCCESS"
                          [] OTHER -> "RUNNING"

\* a selector over a failing leaf, an inverter that turns a failure into a
\* success, and a third child that is not executed
C27_Witness ==
    /\ turnCall.op = "execute"
    /\ turnCall.node.kind = "selector"
    /\ Len(turnCall.node.children) = 3
    /\ turnCall.node.children[2].kind = "inverter"
    /\ ChildStates[1] = "FAILURE"
    /\ turnResult = [state |-> "SUCCESS", ran |-> <<1, 2>>]

\* C28: a parallel node with threshold K executes all of its children and
\* returns running if any child returns running, otherwise success iff at
\* least K children returned success, otherwise failure.
C28_ParallelExecutesAllChildren ==
    (turnCall.op = "execute" /\ turnCall.node.kind = "parallel") =>
        LET node == turnCall.node
            count == Len(node.children)
            successes == {i \in 1 .. count : ChildStates[i] = "SUCCESS"}
        IN  /\ turnResult.ran = RanBy(count)
            /\ turnResult.state =
                  IF \E i \in 1 .. count : ChildStates[i] = "RUNNING" THEN "RUNNING"
                  ELSE IF Cardinality(successes) >= node.requiredSuccesses THEN "SUCCESS"
                  ELSE "FAILURE"

\* what the code does: it returns at the first running child, and the
\* children after it are not executed
C28_StopsAtRunningChild ==
    /\ turnCall.op = "execute"
    /\ turnCall.node.kind = "parallel"
    /\ Len(turnCall.node.children) = 3
    /\ ChildStates[1] = "RUNNING"
    /\ turnResult = [state |-> "RUNNING", ran |-> <<1>>]

\* C29: the diplomacy-aware enemy-detection condition succeeds iff some unit
\* within the range (the supplied positive range, otherwise the asking unit's
\* detection range) satisfies the configured hostile/war relationship tier,
\* or, when no hostile/war tier filter applies, is a unit of a different
\* faction; a unit of the asking unit's own faction never makes it succeed.
C29_DetectsOnlyOtherFactions ==
    turnCall.op = "CheckEnemyByDiplomacyNode" =>
        LET unit == turnCall.unit
            range == IF turnCall.range > 0 THEN turnCall.range ELSE unit.detectionRange
            near == {i \in DOMAIN turnCall.units :
                        manhattanDistance(turnCall.position, turnCall.units[i].position)
                           <= range}
            other(i) == turnCall.units[i].unitData.faction
            counts(i) ==
                /\ other(i) # unit.faction
                /\ turnCall.relationshipStatus \in {"war", "hostile"} =>
                      getRelationshipStatus(relations, unit.faction, other(i))
                         = turnCall.relationshipStatus
        IN  turnResult.state = "SUCCESS" <=> \E i \in near : counts(i)

\* what the code does without a hostile/war tier: a unit of the asking unit's
\* own faction within the range makes the condition succeed
C29_OwnFactionDetected ==
    /\ turnCall.op = "CheckEnemyByDiplomacyNode"
    /\ turnCall.relationshipStatus = "neutral"
    /\ turnCall.units # <<>>
    /\ \A i \in DOMAIN turnCall.units :
          turnCall.units[i].unitData.faction = turnCall.unit.faction
    /\ turnResult.state = "SUCCESS"

\* what the code does with the war tier: a unit of a faction the asking
\* unit's faction is not at war with makes the condition succeed
C29_TierNotConsulted ==
    /\ turnCall.op = "CheckEnemyByDiplomacyNode"
    /\ turnCall.relationshipStatus = "war"
    /\ turnCall.unit.faction = "neutral"
    /\ turnCall.units # <<>>
    /\ \A i \in DOMAIN turnCall.units :
          getRelationshipStatus(relations, "neutral", turnCall.units[i].unitData.faction)
             = "neutral"
    /\ turnResult.state = "SUCCESS"

\* C30: calculateUnitSupply(unit, pos) reports inSupplyRange iff some base of
\* the unit's faction has pos within its supply range; the nearest base it
\* reports is the first base in base order at the least distance among those
\* bases; canReceiveFuel and canReceiveAmmo are true iff that base exists and
\* its production of the resource is positive; the call changes no state.
C30_SupplyInfoOfNearestOwnBase ==
    supplyCall.op = "calculateUnitSupply" =>
        LET before == supplyCall.bases
            asked == [supplyCall.unit EXCEPT !.position = supplyCall.unitPosition]
            nearest == NearestOwnBases(before, asked)
            first == CHOOSE i \in nearest : \A j \in nearest : i <= j
        IN  /\ supplyResult.inSupplyRange <=> OwnBasesInRange(before, asked) # {}
            /\ supplyResult.nearestBase
                  = IF nearest = {} THEN <<>> ELSE <<before[first]>>
            /\ supplyResult.canReceiveFuel
                  <=> (nearest # {} /\ before[first].fuelProduction > 0)
            /\ supplyResult.canReceiveAmmo
                  <=> (nearest # {} /\ before[first].ammunitionProduction > 0)
            /\ bases = before
            /\ units[supplyCall.id] = supplyCall.unit

\* at (3, 4) the headquarters and the dry depot added later are both three
\* tiles away; the headquarters comes first and fuel can be received
C30_Witness ==
    /\ supplyCall.op = "calculateUnitSupply"
    /\ supplyCall.unitPosition = <<3, 4>>
    /\ Cardinality(NearestOwnBases(supplyCall.bases,
                      [supplyCall.unit EXCEPT !.position = <<3, 4>>])) = 2
    /\ supplyResult.nearestBase # <<>>
    /\ supplyResult.nearestBase[1].id = "player-hq"
    /\ supplyResult.supplyDistance = 3
    /\ supplyResult.canReceiveFuel

(***************************************************************************)
(* Routes, termination and the scores of the utility decision              *)
(***************************************************************************)
\* C34: a non-empty route returned by findPath begins at the start, ends at
\* the goal, steps between 4-adjacent tiles of the grid, visits no tile
\* twice and reports the sum of the step costs of the tiles entered; under a
\* cap the reported cost is within the cap, and null is returned exactly
\* when no route within the cap (within any cost, when there is no cap)
\* exists.
C34_RouteIsSimpleWalkOfReportedCost ==
    pathCall # NoCall =>
        LET path == pathResult.path
            cap == pathCall.maxMovementPoints
            budget == IF cap = NoCap THEN 3 * MapW * MapH ELSE cap
            within == TrueMinCost(pathCall.startPos, pathCall.movementType, budget)
            sum[i \in 1 .. Len(path)] ==
                IF i = 1 THEN 0 ELSE sum[i - 1] + RefCost(pathCall.movementType, path[i])
        IN  /\ pathResult.isNull <=> pathCall.endPos \notin DOMAIN within
            /\ (~pathResult.isNull /\ path # <<>>) =>
                  /\ path[1] = pathCall.startPos
                  /\ path[Len(path)] = pathCall.endPos
                  /\ \A i \in 1 .. Len(path) : path[i] \in Pos
                  /\ \A i \in 1 .. Len(path) - 1 : RefAdjacent(path[i], path[i + 1])
                  /\ \A i, j \in 1 .. Len(path) : path[i] = path[j] => i = j
                  /\ pathResult.cost = sum[Len(path)]
                  /\ cap # NoCap => pathResult.cost <= cap

\* a capped ground query answered with a route of several steps that enters
\* rough ground and uses the whole cap
C34_Witness ==
    /\ pathCall # NoCall
    /\ pathCall.movementType = "ground"
    /\ pathCall.maxMovementPoints = MaxBudget
    /\ ~pathResult.isNull
    /\ Len(pathResult.path) >= 3
    /\ pathResult.cost > Len(pathResult.path) - 1
    /\ pathResult.cost = MaxBudget

\* C36: evaluateBestAction never returns idle: patrol scores 0.2 (420 in
\* 2100ths) and stands before idle (0.1), so the action returned scores at
\* least 0.2 and is never the one processUnitTurn answers with "Standing by".
C36_NeverIdle ==
    turnCall.op = "evaluateBestAction" =>
        /\ turnResult.action # "idle"
        /\ turnResult.score >= 420
        /\ evaluatePatrol(turnCall.context.unit, turnCall.context.position,
                          turnCall.random).score = 420
        /\ evaluateIdle.score = 210

\* a unit with no enemy in its context: attack and pursuit score nothing and
\* patrol is returned with 0.2
C36_Witness ==
    /\ turnCall.op = "evaluateBestAction"
    /\ turnCall.context.enemies = <<>>
    /\ turnResult.action = "patrol"
    /\ turnResult.score = 420

(***************************************************************************)
(* The ledger over the turns                                               *)
(***************************************************************************)
\* C37: over the unit turns and the combats resolved on a controller's
\* ledger no relation score ever rises (every penalty of combat, of
\* entering territory and of capture is negative), so the player and the
\* enemy, who start at -80, are at war in every reachable state, and a pair
\* of factions at war stays at war.
C37_RelationsNeverRise ==
    /\ [](getRelationshipStatus(relations, "player", "enemy") = "war")
    /\ [][\A a \in Faction, b \in Faction :
            /\ getRelation(relations', a, b) <= getRelation(relations, a, b)
            /\ getRelationshipStatus(relations, a, b) = "war"
                  => getRelationshipStatus(relations', a, b) = "war"]_vars

\* the enemy unit has attacked the player's and has entered the player's
\* headquarters: both penalties have lowered the relation
C37_Witness ==
    /\ \E i \in DOMAIN actionHistory : actionHistory[i].type = "ATTACK_UNIT"
    /\ \E i \in DOMAIN actionHistory : actionHistory[i].type = "ENTER_TERRITORY"
    /\ getRelation(relations, "player", "enemy") = Max(-100, -80 - 15 - 5)

(***************************************************************************)
(* The loops of the pathfinder, one round at a time.  frame holds the      *)
(* locals of the call in progress: openSet and closedSet for findPath,     *)
(* reachableTiles and queue for findMovementRange.                         *)
(***************************************************************************)
\* findPath up to its while loop
EnterFindPath ==
    /\ frame = NoCall
    /\ rangeCall = NoCall
    /\ pathCall = NoCall
    /\ \E startPos \in Pos, endPos \in Pos, movementType \in MovementType,
          maxMovementPoints \in PathCaps :
          /\ pathCall' = [op |-> "findPath", startPos |-> startPos, endPos |-> endPos,
                          movementType |-> movementType,
                          maxMovementPoints |-> maxMovementPoints]
          /\ IF startPos = endPos
             THEN /\ pathResult' = [isNull |-> FALSE, path |-> <<>>, cost |-> 0]
                  /\ frame' = NoCall
             ELSE /\ pathResult' = pathResult
                  /\ frame' = [op |-> "findPath",
                               openSet |-> <<PathNode(startPos, 0,
                                                 manhattanDistance(startPos, endPos), <<>>)>>,
                               closedSet |-> {}]
    /\ UNCHANGED <<tiles, mapWidth, mapHeight, rangeCall, rangeResult, dipVars, combatVars, supplyVars, turnVars, calls, timeouts, gameVars, workerVars>>

\* one test of the while condition of findPath and one round of its body
FindPathRound ==
    /\ frame.op = "findPath"
    /\ IF frame.openSet = <<>>
       THEN /\ pathResult' = PathNull
            /\ frame' = NoCall
       ELSE LET sorted == SortByF(<<>>, frame.openSet)
                currentNode == Head(sorted)
                closed == frame.closedSet \cup {currentNode.position}
            IN  IF currentNode.position = pathCall.endPos
                THEN /\ pathResult' = reconstructPath(currentNode)
                     /\ frame' = NoCall
                ELSE /\ pathResult' = pathResult
                     /\ frame' = [frame EXCEPT
                           !.openSet = VisitNeighbors(Tail(sorted), closed, currentNode,
                                           getNeighbors(currentNode.position, mapWidth,
                                                        mapHeight),
                                           pathCall.endPos, pathCall.movementType,
                                           pathCall.maxMovementPoints),
                           !.closedSet = closed]
    /\ UNCHANGED <<tiles, mapWidth, mapHeight, rangeCall, rangeResult, pathCall, dipVars, combatVars, supplyVars, turnVars, calls, timeouts, gameVars, workerVars>>

\* findMovementRange up to its while loop
EnterFindMovementRange ==
    /\ frame = NoCall
    /\ rangeCall = NoCall
    /\ pathCall = NoCall
    /\ \E position \in Pos, movementType \in MovementType, movementPoints \in 0 .. MaxBudget :
          /\ rangeCall' = [op |-> "findMovementRange", position |-> position,
                           movementType |-> movementType, movementPoints |-> movementPoints]
          /\ frame' = [op |-> "findMovementRange",
                       reachableTiles |-> (position :> 0),
                       queue |-> <<[pos |-> position, remainingPoints |-> movementPoints]>>]
    /\ UNCHANGED <<tiles, mapWidth, mapHeight, rangeResult, pathCall, pathResult, dipVars, combatVars, supplyVars, turnVars, calls, timeouts, gameVars, workerVars>>

\* one test of the while condition of findMovementRange and one round of its body
FindMovementRangeRound ==
    /\ frame.op = "findMovementRange"
    /\ IF frame.queue = <<>>
       THEN /\ rangeResult' = frame.reachableTiles
            /\ frame' = NoCall
       ELSE LET next == RangeVisits(frame.reachableTiles, Tail(frame.queue),
                                    Head(frame.queue).pos,
                                    getNeighbors(Head(frame.queue).pos, mapWidth, mapHeight),
                                    rangeCall.movementType, rangeCall.movementPoints)
            IN  /\ rangeResult' = rangeResult
                /\ frame' = [frame EXCEPT !.reachableTiles = next[1], !.queue = next[2]]
    /\ UNCHANGED <<tiles, mapWidth, mapHeight, rangeCall, pathCall, pathResult, dipVars, combatVars, supplyVars, turnVars, calls, timeouts, gameVars, workerVars>>

NextSearch ==
    EnterFindPath \/ FindPathRound \/ EnterFindMovementRange \/ FindMovementRangeRound

\* a call in progress is synchronous code: it takes its next round
SpecSearch ==
    /\ InitPath
    /\ [][NextSearch]_vars
    /\ WF_vars(FindPathRound)
    /\ WF_vars(FindMovementRangeRound)

\* the rounds give what the operators findPath and findMovementRange give
SearchRoundsAgree ==
    /\ (pathCall # NoCall /\ frame = NoCall) =>
          pathResult = findPath(pathCall.startPos, pathCall.endPos, pathCall.movementType,
                                pathCall.maxMovementPoints)
    /\ (rangeCall # NoCall /\ frame = NoCall) =>
          rangeResult = findMovementRange(rangeCall.position, rangeCall.movementType,
                                          rangeCall.movementPoints)

\* what is left to do in a findMovementRange call: four times the costs
\* still to be lowered (a tile not reached counts as one above the budget)
\* plus the length of the queue
RangeMeasure(locals, movementPoints) ==
    LET label(p) == IF p \in DOMAIN locals.reachableTiles
                    THEN locals.reachableTiles[p] ELSE movementPoints + 1
        RECURSIVE total(_)
        total(S) == IF S = {} THEN 0
                    ELSE LET p == CHOOSE q \in S : TRUE IN label(p) + total(S \ {p})
    IN  4 * total(Pos) + Len(locals.queue)

\* C32: on a finite grid every findPath and findMovementRange call returns,
\* findPath with a route or null: each round of findPath closes one more
\* tile of the grid, each round of findMovementRange lowers a cost or
\* shortens the queue, and a call in progress always comes to its return.
C32_SearchesTerminate ==
    /\ [][(frame.op = "findPath" /\ frame'.op = "findPath") =>
            /\ frame'.closedSet \subseteq Pos
            /\ Cardinality(frame'.closedSet) = Cardinality(frame.closedSet) + 1]_vars
    /\ [][(frame.op = "findMovementRange" /\ frame'.op = "findMovementRange") =>
            /\ RangeMeasure(frame', rangeCall.movementPoints) >= 0
            /\ RangeMeasure(frame', rangeCall.movementPoints)
                  < RangeMeasure(frame, rangeCall.movementPoints)]_vars
    /\ (frame # NoCall) ~> (frame = NoCall)
    /\ [](pathCall # NoCall /\ frame = NoCall =>
             pathResult.isNull \/ pathResult.path \in Seq(Pos))

\* a capped ground search for a tile that is not water has closed every
\* tile it could reach and returned null
C32_Witness ==
    /\ pathCall # NoCall
    /\ frame = NoCall
    /\ pathCall.startPos # pathCall.endPos
    /\ pathCall.maxMovementPoints # NoCap
    /\ pathResult.isNull
    /\ tiles[pathCall.endPos] # "water"

(***************************************************************************)
(* GameManager.  units is its list of Unit records: the unit data (shared  *)
(* with the controller, which lowers fuel and ammunition in it) and the    *)
(* health the game tracks.  The effects that follow a change of the        *)
(* selection are taken with the handler that made the change.  The loop of *)
(* processAITurn is taken one enemy unit at a time, its locals in frame;   *)
(* no other handler runs until it has returned.                            *)
(***************************************************************************)
Unit(id, unitTypeId, position) ==
    [id |-> id, position |-> position, unitData |-> UnitTypes[unitTypeId],
     health |-> UnitTypes[unitTypeId].health]

\* Array.prototype.findIndex, counted from 1: 0 when no element passes
FindIndex(array, Test(_)) ==
    LET hits == {i \in 1 .. Len(array) : Test(array[i])}
    IN  IF hits = {} THEN 0 ELSE CHOOSE i \in hits : \A j \in hits : i <= j

\* splice(index, 1)
Splice(array, index) == SubSeq(array, 1, index - 1) \o SubSeq(array, index + 1, Len(array))

\* the effect that computes currentPath from the selection
CurrentPathEffect(tile, unit, allUnits) ==
    IF tile = <<>> \/ unit = <<>> THEN <<>>
    ELSE IF unit[1].position = tile[1] THEN <<>>
    ELSE LET at == FindIndex(allUnits, LAMBDA u : u.position = tile[1])
             tilesInRange == findMovementRange(unit[1].position, unit[1].unitData.movementType,
                                               unit[1].unitData.movementPoints)
         IN  IF at # 0 /\ allUnits[at].unitData.faction # unit[1].unitData.faction
             THEN IF manhattanDistance(unit[1].position, allUnits[at].position)
                        <= unit[1].unitData.attackRange
                  THEN <<unit[1].position, allUnits[at].position>>
                  ELSE <<>>
             ELSE IF tile[1] \in DOMAIN tilesInRange /\ at = 0
             THEN LET found == findPath(unit[1].position, tile[1],
                                        unit[1].unitData.movementType,
                                        unit[1].unitData.movementPoints)
                  IN  IF found.isNull THEN <<>> ELSE found.path
             ELSE <<>>

\* handleCombat on the units of the render it was made in: the result of
\* resolveCombat on the game's own combat system, which has neither supply
\* network nor ledger, and the units it sets
handleCombat(allUnits, attacker, defender) ==
    LET combat == resolveCombatOn(FALSE, FALSE, attacker.unitData, attacker.position,
                                  defender.unitData, defender.position)
        defenderIndex == FindIndex(allUnits, LAMBDA u : u.id = defender.id)
        damaged == IF defenderIndex = 0 THEN allUnits
                   ELSE IF combat.result.isKill THEN Splice(allUnits, defenderIndex)
                   ELSE [allUnits EXCEPT ![defenderIndex].health =
                                            combat.result.defenderRemainingHealth]
    IN  [result |-> combat.result, newUnits |-> damaged]

\* checkAutoAttack: the weakest enemy in range, <<>> when there is none
checkAutoAttack(unit, allUnits) ==
    LET enemiesInRange ==
            SelectSeq(allUnits, LAMBDA other :
                /\ other.unitData.faction # unit.unitData.faction
                /\ manhattanDistance(unit.position, other.position)
                      <= unit.unitData.attackRange)
        RECURSIVE weakest(_, _)
        weakest(rest, best) ==
            IF rest = <<>> THEN best
            ELSE weakest(Tail(rest), IF Head(rest).health < best.health
                                     THEN Head(rest) ELSE best)
    IN  IF enemiesInRange = <<>> THEN <<>>
        ELSE <<weakest(enemiesInRange, enemiesInRange[1])>>

\* the tiles the player clicks, and the positions the game is taken up at:
\* the player's infantry has walked up to the enemy infantry and the enemy
\* tank, which have come from their corner and paid the fuel of the way
TileChoices == { <<9, 6>>, <<9, 8>>, <<9, 9>>, <<10, 9>> }
PlayerPositions == { <<9, 8>>, <<9, 10>> }

InitGame ==
    /\ tiles = OpenMap
    /\ mapWidth = GameMapWidth
    /\ mapHeight = GameMapHeight
    /\ rangeCall = NoCall
    /\ rangeResult = <<>>
    /\ pathCall = NoCall
    /\ pathResult = PathNull
    /\ relations = NewRelations
    /\ actionHistory = <<>>
    /\ actionListeners = <<>>
    /\ notified = <<>>
    /\ dipCall = NoCall
    /\ bases = NewBases(GameMapWidth, GameMapHeight)
    /\ hasSupply = TRUE
    /\ hasDiplomacy = TRUE
    /\ \E position \in PlayerPositions :
          units = << Unit("unit-infantry-1", "infantry", position),
                     [Unit("enemy-infantry-1", "enemy-infantry", <<9, 6>>)
                         EXCEPT !.unitData.fuelCurrent = 35],
                     [Unit("enemy-tank-1", "enemy-tank", <<10, 3>>)
                         EXCEPT !.unitData.fuelCurrent = 90] >>
    /\ combatCall = NoCall
    /\ combatResult = NoCall
    /\ supplyCall = NoCall
    /\ supplyResult = NoCall
    /\ turnCall = NoCall
    /\ turnResult = NoCall
    /\ calls = 0
    /\ AppIdle

\* handleSetActiveUnit, from the unit list of GameInfo
SetActiveUnit ==
    /\ frame = NoCall
    /\ \E unit \in {<<>>} \cup {<<units[i]>> : i \in DOMAIN units} :
          /\ selectedUnit' = IF unit # <<>> /\ unit[1].unitData.faction = "player" /\ playerTurn
                             THEN unit ELSE <<>>
          /\ currentPath' = CurrentPathEffect(selectedTile, selectedUnit', units)
    /\ UNCHANGED <<pathVars, dipVars, combatVars, supplyVars, turnVars, calls, frame, timeouts, turn, playerTurn, selectedTile, workerVars>>

\* setSelectedTile, from a click on the grid
SetSelectedTile ==
    /\ frame = NoCall
    /\ \E tile \in TileChoices :
          /\ selectedTile' = <<tile>>
          /\ currentPath' = CurrentPathEffect(selectedTile', selectedUnit, units)
    /\ UNCHANGED <<pathVars, dipVars, combatVars, supplyVars, turnVars, calls, frame, timeouts, turn, playerTurn, selectedUnit, workerVars>>

\* moveUnit, from the button shown while there is a path and the player is
\* to act.  An attack goes to handleCombat; after a move checkAutoAttack may
\* call handleCombat, whose setUnits is the one that stays.
MoveUnit ==
    /\ frame = NoCall
    /\ calls < MaxCalls
    /\ playerTurn
    /\ selectedUnit # <<>>
    /\ Len(currentPath) > 1
    /\ LET targetPos == currentPath[2]
           targetIndex == IF Len(currentPath) # 2 THEN 0
                          ELSE FindIndex(units, LAMBDA u :
                                   /\ u.position = targetPos
                                   /\ u.unitData.faction # selectedUnit[1].unitData.faction)
           unitIndex == FindIndex(units, LAMBDA u : u.id = selectedUnit[1].id)
           moved == [units EXCEPT ![unitIndex] =
                        [@ EXCEPT !.position = currentPath[Len(currentPath)]]]
           target == checkAutoAttack(moved[unitIndex], moved)
       IN  IF targetIndex # 0
           THEN LET fought == handleCombat(units, selectedUnit[1], units[targetIndex])
                IN  /\ units' = fought.newUnits
                    /\ combatCall' = [op |-> "handleCombat", at |-> calls + 1, attacker |-> selectedUnit[1],
                                      defender |-> units[targetIndex]]
                    /\ combatResult' = fought.result
                    /\ selectedTile' = <<>>
                    /\ currentPath' = <<>>
           ELSE IF unitIndex = 0
           THEN UNCHANGED <<units, combatCall, combatResult, selectedTile, currentPath>>
           ELSE IF target = <<>>
           THEN /\ units' = moved
                /\ selectedTile' = <<>>
                /\ currentPath' = <<>>
                /\ UNCHANGED <<combatCall, combatResult>>
           ELSE LET fought == handleCombat(units, moved[unitIndex], target[1])
                IN  /\ units' = fought.newUnits
                    /\ combatCall' = [op |-> "handleCombat", at |-> calls + 1, attacker |-> moved[unitIndex],
                                      defender |-> target[1]]
                    /\ combatResult' = fought.result
                    /\ selectedTile' = <<>>
                    /\ currentPath' = <<>>
    /\ calls' = calls + 1
    /\ UNCHANGED <<pathVars, dipVars, bases, hasSupply, hasDiplomacy, supplyVars, turnVars, frame, timeouts, turn, playerTurn, selectedUnit, workerVars>>

\* endPlayerTurn leaving the player to act while the timer runs
EndPlayerTurnStillPlayer ==
    /\ frame = NoCall
    /\ playerTurn
    /\ turn <= MaxCalls
    /\ timeouts = <<>>
    /\ timeouts' = Append(timeouts, [op |-> "processAITurn", units |-> units, turn |-> turn])
    /\ UNCHANGED <<pathVars, dipVars, combatVars, supplyVars, turnVars, calls, frame, gameVars, workerVars>>

\* endPlayerTurn, from the button shown while the player is to act; the
\* timer holds the processAITurn of this render, with its units and its turn
EndPlayerTurn ==
    /\ frame = NoCall
    /\ playerTurn
    /\ turn <= MaxCalls
    /\ playerTurn' = FALSE
    /\ selectedUnit' = <<>>
    /\ selectedTile' = <<>>
    /\ currentPath' = <<>>
    /\ timeouts' = Append(timeouts, [op |-> "processAITurn", units |-> units, turn |-> turn])
    /\ UNCHANGED <<pathVars, dipVars, combatVars, supplyVars, turnVars, calls, frame, turn, workerVars>>

\* the timer fires: processAITurn up to its loop
ProcessAITurn ==
    /\ frame = NoCall
    /\ timeouts # <<>>
    /\ Head(timeouts).op = "processAITurn"
    /\ timeouts' = Tail(timeouts)
    /\ LET closure == Head(timeouts)
           enemyUnits == SelectSeq(closure.units, LAMBDA u : u.unitData.faction = "enemy")
       IN  IF enemyUnits = <<>>
           THEN /\ playerTurn' = TRUE
                /\ turn' = closure.turn + 1
                /\ frame' = NoCall
           ELSE /\ frame' = [op |-> "processAITurn", enemyUnits |-> enemyUnits, next |-> 1,
                             newUnits |-> closure.units,
                             unitsForAI |-> [i \in 1 .. Len(closure.units) |->
                                               [unit |-> closure.units[i].unitData,
                                                position |-> closure.units[i].position]],
                             turn |-> closure.turn]
                /\ UNCHANGED <<playerTurn, turn>>
    /\ UNCHANGED <<pathVars, dipVars, combatVars, supplyVars, turnVars, calls, selectedUnit, selectedTile, currentPath, workerVars>>

\* one round of the loop of processAITurn: processUnitTurn for the next enemy
\* unit, then the move and the combat the game applies for it.  The unit
\* data the controller changed is the object the lists hold.  combatResult
\* holds what the controller's resolveCombat returned for the attack.
ProcessAITurnRound ==
    /\ frame.op = "processAITurn"
    /\ frame.next <= Len(frame.enemyUnits)
    /\ LET enemyUnit == frame.enemyUnits[frame.next]
       IN
       \E random \in IF ReadsRandom(enemyUnit.unitData, enemyUnit.position, frame.unitsForAI)
                     THEN PatrolDraws
                     ELSE {[x |-> 0, y |-> 0, quarter |-> 0]} :
       \E outcome \in {processUnitTurn(enemyUnit.unitData, enemyUnit.position,
                                       frame.unitsForAI, random)} :
          LET result == outcome.result
              held == [i \in 1 .. Len(frame.newUnits) |->
                         IF frame.newUnits[i].unitData.id = enemyUnit.unitData.id
                         THEN [frame.newUnits[i] EXCEPT !.unitData = outcome.unit]
                         ELSE frame.newUnits[i]]
              heldForAI == [i \in 1 .. Len(frame.unitsForAI) |->
                              IF frame.unitsForAI[i].unit.id = enemyUnit.unitData.id
                              THEN [frame.unitsForAI[i] EXCEPT !.unit = outcome.unit]
                              ELSE frame.unitsForAI[i]]
              enemyIndex == FindIndex(held, LAMBDA u : u.id = enemyUnit.id)
              moves == enemyIndex # 0 /\ result.newPosition # <<>>
              moved == IF moves
                       THEN [held EXCEPT ![enemyIndex].position = result.newPosition[1]]
                       ELSE held
              unitAIIndex == FindIndex(heldForAI, LAMBDA u : u.unit.id = enemyUnit.unitData.id)
              movedForAI == IF moves /\ unitAIIndex # 0
                            THEN [heldForAI EXCEPT ![unitAIIndex].position =
                                                      result.newPosition[1]]
                            ELSE heldForAI
              targetIndex == IF enemyIndex # 0 /\ result.combatOccurred
                                   /\ result.targetUnit # <<>>
                             THEN FindIndex(moved, LAMBDA u :
                                      u.unitData.id = result.targetUnit[1].id)
                             ELSE 0
              damage == Max(1, enemyUnit.unitData.attackPower
                                  - moved[targetIndex].unitData.defense)
              health == moved[targetIndex].health - damage
              fought == IF targetIndex = 0 THEN moved
                        ELSE IF health <= 0 THEN Splice(moved, targetIndex)
                        ELSE [moved EXCEPT ![targetIndex].health = health]
          IN  /\ frame' = [frame EXCEPT !.next = @ + 1, !.newUnits = fought,
                                        !.unitsForAI = movedForAI]
              /\ bases' = outcome.bases
              /\ relations' = outcome.relations
              /\ actionHistory' = outcome.actionHistory
              /\ notified' = outcome.notified
              /\ turnCall' = [op |-> "processUnitTurn", id |-> enemyUnit.id,
                              unit |-> enemyUnit.unitData, position |-> enemyUnit.position,
                              unitsForAI |-> frame.unitsForAI, newUnits |-> frame.newUnits]
              /\ turnResult' = result
              /\ IF targetIndex = 0
                 THEN UNCHANGED <<combatCall, combatResult>>
                 ELSE /\ combatCall' = [op |-> "processAITurn",
                                        at |-> <<frame.turn, frame.next>>,
                                        attacker |-> enemyUnit,
                                        defender |-> moved[targetIndex]]
                      /\ combatResult' =
                            resolveCombatOn(TRUE, TRUE, enemyUnit.unitData,
                                            enemyUnit.position, result.targetUnit[1],
                                            moved[targetIndex].position).result
    /\ UNCHANGED <<pathVars, actionListeners, dipCall, units, hasSupply, hasDiplomacy, supplyVars, calls, timeouts, gameVars, workerVars>>

\* processAITurn after its loop
ProcessAITurnEnd ==
    /\ frame.op = "processAITurn"
    /\ frame.next > Len(frame.enemyUnits)
    /\ units' = frame.newUnits
    /\ playerTurn' = TRUE
    /\ turn' = frame.turn + 1
    /\ frame' = NoCall
    /\ UNCHANGED <<pathVars, dipVars, bases, hasSupply, hasDiplomacy, combatCall, combatResult, supplyVars, turnVars, calls, timeouts, selectedUnit, selectedTile, currentPath, workerVars>>

NextGame ==
    \/ SetActiveUnit
    \/ SetSelectedTile
    \/ MoveUnit
    \/ EndPlayerTurn
    \/ ProcessAITurn
    \/ ProcessAITurnRound
    \/ ProcessAITurnEnd

\* a timer that is due fires, and the handler it starts runs to its end
SpecGame ==
    /\ InitGame
    /\ [][NextGame]_vars
    /\ WF_vars(ProcessAITurn)
    /\ WF_vars(ProcessAITurnRound)
    /\ WF_vars(ProcessAITurnEnd)

(***************************************************************************)
(* Claims about the game loop                                              *)
(***************************************************************************)
\* C38: after the move of an AI unit is applied in an AI turn no two living
\* units stand on the same tile: the unit that moved ends neither on the
\* tile of the enemy it pursues nor on the tile of an ally or of any other
\* unit.
C38_NoTwoUnitsOnOneTile ==
    (frame.op = "processAITurn" /\ turnCall.op = "processUnitTurn"
        /\ turnResult.newPosition # <<>>) =>
        \A i, j \in DOMAIN frame.newUnits :
            frame.newUnits[i].position = frame.newUnits[j].position => i = j

\* what the code does: the enemy infantry pursued the player's infantry, four
\* tiles away, and the game put it on the tile the player's infantry stands on
C38_PursuerOnTargetTile ==
    /\ frame.op = "processAITurn"
    /\ turnCall.op = "processUnitTurn"
    /\ turnCall.id = "enemy-infantry-1"
    /\ turnResult.newPosition = << <<9, 10>> >>
    /\ \E i, j \in DOMAIN frame.newUnits :
          /\ frame.newUnits[i].id = "enemy-infantry-1"
          /\ frame.newUnits[j].id = "unit-infantry-1"
          /\ frame.newUnits[i].position = <<9, 10>>
          /\ frame.newUnits[j].position = <<9, 10>>

\* the tracked health of a unit in a list of units, -1 when it is not there
TrackedHealth(allUnits, id) ==
    LET index == FindIndex(allUnits, LAMBDA u : u.id = id)
    IN  IF index = 0 THEN -1 ELSE allUnits[index].health

\* C35: damage accumulates in the game loop: after every resolved attack, of
\* the player or of the AI, the tracked health of the defender is its
\* tracked health before the attack less the damage resolveCombat reported,
\* not below 0, and the unit is removed exactly when that comes to 0.
C35_DamageAccumulates ==
    [][(combatCall' # combatCall /\ combatCall'.op \in {"handleCombat", "processAITurn"}) =>
          LET expected == Max(0, combatCall'.defender.health - combatResult'.damage)
              tracked == TrackedHealth(IF combatCall'.op = "handleCombat"
                                       THEN units' ELSE frame'.newUnits,
                                       combatCall'.defender.id)
          IN  IF expected = 0 THEN tracked = -1 ELSE tracked = expected]_vars

\* what the code does for the player: a second attack on the enemy infantry,
\* tracked at 68 of 90 after the first, leaves it at 68, the template's
\* health less the damage of one attack
C35_SecondAttackStartsFromTemplate ==
    /\ combatCall.op = "handleCombat"
    /\ combatCall.defender.id = "enemy-infantry-1"
    /\ combatCall.defender.health = 68
    /\ combatResult.damage = 22
    /\ TrackedHealth(units, "enemy-infantry-1") = 68

\* what the code does for the AI: the controller's resolveCombat reported 20
\* for the enemy infantry's attack and the game took 15 from the tracked health
C35_GameAppliesItsOwnDamage ==
    /\ frame.op = "processAITurn"
    /\ combatCall.op = "processAITurn"
    /\ combatCall.attacker.id = "enemy-infantry-1"
    /\ combatResult.damage = 20
    /\ TrackedHealth(frame.newUnits, combatCall.defender.id)
          = combatCall.defender.health - 15

\* C31: from the moment the player ends the turn until the AI turn has
\* finished playerTurn is false and no move or attack of the player is
\* applied; the AI turn takes the enemy units one at a time, in their order;
\* it runs once for every turn the player ends, and only when every enemy
\* unit has been processed does playerTurn become true and the turn counter
\* go up by exactly 1.
C31_AITurnRunsOnceAndAlone ==
    /\ []((timeouts # <<>> \/ frame.op = "processAITurn") <=> ~playerTurn)
    /\ [](~playerTurn =>
             /\ selectedUnit = <<>>
             /\ currentPath = <<>>
             /\ Len(timeouts) + (IF frame.op = "processAITurn" THEN 1 ELSE 0) = 1)
    /\ [][/\ ~playerTurn => calls' = calls
          /\ units' # units /\ ~playerTurn => playerTurn'
          /\ (playerTurn /\ ~playerTurn') =>
                timeouts' = <<[op |-> "processAITurn", units |-> units, turn |-> turn]>>
          /\ (frame.op = "processAITurn" /\ frame'.op = "processAITurn") =>
                /\ frame'.next = frame.next + 1
                /\ frame'.enemyUnits = frame.enemyUnits
                /\ turnCall'.id = frame.enemyUnits[frame.next].id
                /\ ~playerTurn'
                /\ turn' = turn
          /\ (~playerTurn /\ playerTurn') =>
                /\ turn' = turn + 1
                /\ timeouts' = <<>>
                /\ frame'.op = "none"
                /\ frame.op = "processAITurn" => frame.next = Len(frame.enemyUnits) + 1
          /\ turn' # turn => ~playerTurn /\ playerTurn']_vars

\* the second turn has begun: the AI turn processed the enemy infantry and
\* then the enemy tank and handed the game back with the counter at 2
C31_Witness ==
    /\ playerTurn
    /\ turn = 2
    /\ frame = NoCall
    /\ timeouts = <<>>
    /\ turnCall.op = "processUnitTurn"
    /\ turnCall.id = "enemy-tank-1"
    /\ Len(turnCall.unitsForAI) = 3

(***************************************************************************)
(* BehaviorTreeWorker: the queue, its background loop and its timers       *)
(***************************************************************************)
\* what a queued node's execute() does and what a callback does when called
NodeOutcome == NodeState \cup {"throws"}
CallbackOutcome == {"returns", "throws"}

\* the timer of the loop's await and the timer that runs one work item
ResumeTimer == [op |-> "resume"]
ExecuteTimer(work) == [op |-> "execute", work |-> work]

\* new BehaviorTreeWorker(): processQueue runs to its first await with the
\* queue empty
InitWorker ==
    /\ tiles = OpenMap
    /\ mapWidth = GameMapWidth
    /\ mapHeight = GameMapHeight
    /\ rangeCall = NoCall
    /\ rangeResult = <<>>
    /\ pathCall = NoCall
    /\ pathResult = PathNull
    /\ relations = NewRelations
    /\ actionHistory = <<>>
    /\ actionListeners = <<>>
    /\ notified = <<>>
    /\ dipCall = NoCall
    /\ bases = NewBases(GameMapWidth, GameMapHeight)
    /\ hasSupply = TRUE
    /\ hasDiplomacy = TRUE
    /\ units = <<>>
    /\ combatCall = NoCall
    /\ combatResult = NoCall
    /\ supplyCall = NoCall
    /\ supplyResult = NoCall
    /\ turnCall = NoCall
    /\ turnResult = NoCall
    /\ calls = 0
    /\ frame = NoCall
    /\ turn = 1
    /\ playerTurn = TRUE
    /\ selectedUnit = <<>>
    /\ selectedTile = <<>>
    /\ currentPath = <<>>
    /\ workQueue = <<>>
    /\ isRunning = FALSE
    /\ invoked = <<>>
    /\ timeouts = <<ResumeTimer>>

\* enqueue(node, callback); id is the place of the call among the enqueues
Enqueue ==
    /\ calls < MaxCalls
    /\ \E node \in NodeOutcome, callback \in CallbackOutcome :
          workQueue' = Append(workQueue, [id |-> calls + 1, node |-> node, callback |-> callback])
    /\ calls' = calls + 1
    /\ UNCHANGED <<pathVars, dipVars, combatVars, supplyVars, turnVars, frame, timeouts, gameVars, isRunning, invoked>>

\* one pass of processQueue's while loop, from the await's timer to the next
\* await
ProcessQueuePass ==
    /\ timeouts # <<>>
    /\ Head(timeouts) = ResumeTimer
    /\ IF Len(workQueue) > 0
       THEN /\ isRunning' = TRUE
            /\ workQueue' = Tail(workQueue)
            /\ timeouts' = Tail(timeouts) \o <<ExecuteTimer(Head(workQueue)), ResumeTimer>>
       ELSE /\ isRunning' = FALSE
            /\ workQueue' = workQueue
            /\ timeouts' = Tail(timeouts) \o <<ResumeTimer>>
    /\ UNCHANGED <<pathVars, dipVars, combatVars, supplyVars, turnVars, calls, frame, gameVars, invoked>>

\* the timer of one work item: execute the node and call back inside the
\* try, call back with FAILURE in the catch
ExecuteWork ==
    /\ timeouts # <<>>
    /\ Head(timeouts).op = "execute"
    /\ LET work == Head(timeouts).work
           executed == [ev |-> "execute", id |-> work.id, state |-> work.node]
           called(state) == [ev |-> "callback", id |-> work.id, state |-> state]
       IN  invoked' =
               IF work.node = "throws"
               THEN invoked \o <<executed, called("FAILURE")>>
               ELSE IF work.callback = "throws"
               THEN invoked \o <<executed, called(work.node), called("FAILURE")>>
               ELSE invoked \o <<executed, called(work.node)>>
    /\ timeouts' = Tail(timeouts)
    /\ UNCHANGED <<pathVars, dipVars, combatVars, supplyVars, turnVars, calls, frame, gameVars, workQueue, isRunning>>

NextWorker ==
    \/ Enqueue
    \/ ProcessQueuePass
    \/ ExecuteWork

\* timers that are due do fire
SpecWorker ==
    InitWorker /\ [][NextWorker]_vars /\ WF_vars(ProcessQueuePass) /\ WF_vars(ExecuteWork)

\* the log entries of one kind about one work item
EventsOf(ev, id) == {i \in DOMAIN invoked : invoked[i].ev = ev /\ invoked[i].id = id}

\* execute events come in the order of the enqueue calls, one per work item,
\* and everything enqueued is either waiting, on a timer or executed
WorkerRunsQueueInOrder ==
    /\ \A i, j \in DOMAIN invoked :
          (invoked[i].ev = "execute" /\ invoked[j].ev = "execute" /\ i < j) =>
              invoked[i].id < invoked[j].id
    /\ \A id \in 1..calls :
          Cardinality(EventsOf("execute", id))
            + Cardinality({i \in DOMAIN workQueue : workQueue[i].id = id})
            + Cardinality({i \in DOMAIN timeouts : timeouts[i].op = "execute" /\ timeouts[i].work.id = id}) = 1

\* everything enqueued is executed in the end
WorkerExecutesEverything ==
    \A id \in 1..MaxCalls + 1 : (calls >= id) ~> (EventsOf("execute", id) # {})

\* C39: every node enqueued is eventually executed, exactly once and in the
\* order of the enqueue calls, and its callback is invoked exactly once, with
\* the state execute returned, or with FAILURE if execute threw.
C39_EveryNodeRunsOnceCallbackOnce ==
    /\ []WorkerRunsQueueInOrder
    /\ WorkerExecutesEverything
    /\ [](\A i \in DOMAIN invoked :
             invoked[i].ev = "execute" =>
                 /\ Cardinality(EventsOf("callback", invoked[i].id)) = 1
                 /\ \A j \in EventsOf("callback", invoked[i].id) :
                       invoked[j].state = IF invoked[i].state = "throws" THEN "FAILURE"
                                          ELSE invoked[i].state)

\* a node returned SUCCESS, its callback threw inside the try and was called
\* again with FAILURE from the catch
C39_CallbackInvokedTwice ==
    \E i \in DOMAIN invoked :
        /\ invoked[i] = [ev |-> "execute", id |-> 1, state |-> "SUCCESS"]
        /\ i + 2 \in DOMAIN invoked
        /\ invoked[i + 1] = [ev |-> "callback", id |-> 1, state |-> "SUCCESS"]
        /\ invoked[i + 2] = [ev |-> "callback", id |-> 1, state |-> "FAILURE"]

\* the rest of the statement: order, execution once, every node executed in
\* the end, and one callback with the right state when the callback returns
WorkerCallsBackOnceUnlessCallbackThrows ==
    /\ []WorkerRunsQueueInOrder
    /\ WorkerExecutesEverything
    /\ [][(/\ timeouts # <<>>
            /\ Head(timeouts).op = "execute"
            /\ Head(timeouts).work.callback = "returns"
            /\ invoked' # invoked) =>
                /\ Len(invoked') = Len(invoked) + 2
                /\ invoked'[Len(invoked) + 1].ev = "execute"
                /\ invoked'[Len(invoked) + 2] =
                       [ev |-> "callback", id |-> Head(timeouts).work.id,
                        state |-> IF Head(timeouts).work.node = "throws" THEN "FAILURE"
                                  ELSE Head(timeouts).work.node]]_vars

(***************************************************************************)
(* Accessors and what a caller can do with the list it was given.  The     *)
(* list is a new array holding the objects of the internal one: an element *)
(* is written here as the index of its object in the internal array, or 0  *)
(* for an object of the caller's own.                                      *)
(***************************************************************************)
\* [...this.bases]
getBases(allBases) == [i \in 1 .. Len(allBases) |-> i]

\* this.bases.filter(base => base.faction === faction), as references
getBasesByFactionRefs(allBases, faction) ==
    SelectSeq(getBases(allBases), LAMBDA i : allBases[i].faction = faction)

\* [...this.actionHistory]
getActionHistory(history) == [i \in 1 .. Len(history) |-> i]

\* the objects a returned list holds, read through its references
Deref(returned, internal) ==
    [i \in 1 .. Len(returned) |-> IF returned[i] = 0 THEN "own" ELSE internal[returned[i]]]

\* the caller's local holding a returned list, and its last use of it
Holds(accessor, returned, kind) ==
    [op |-> "holds", accessor |-> accessor, returned |-> returned,
     use |-> [kind |-> kind, at |-> calls]]

InitAccess ==
    /\ tiles = OpenMap
    /\ mapWidth = GameMapWidth
    /\ mapHeight = GameMapHeight
    /\ rangeCall = NoCall
    /\ rangeResult = <<>>
    /\ pathCall = NoCall
    /\ pathResult = PathNull
    /\ relations = NewRelations
    /\ actionHistory = <<>>
    /\ actionListeners = <<>>
    /\ notified = <<>>
    /\ dipCall = NoCall
    /\ bases = NewBases(GameMapWidth, GameMapHeight)
    /\ hasSupply = TRUE
    /\ hasDiplomacy = TRUE
    /\ units = <<>>
    /\ combatCall = NoCall
    /\ combatResult = NoCall
    /\ supplyCall = NoCall
    /\ supplyResult = NoCall
    /\ turnCall = NoCall
    /\ turnResult = NoCall
    /\ calls = 0
    /\ AppIdle

GetBases ==
    /\ frame' = Holds("getBases", getBases(bases), "get")
    /\ UNCHANGED <<pathVars, dipVars, combatVars, supplyVars, turnVars, calls, timeouts, gameVars, workerVars>>

GetBasesByFaction ==
    /\ \E faction \in Faction :
          frame' = Holds("getBasesByFaction", getBasesByFactionRefs(bases, faction), "get")
    /\ UNCHANGED <<pathVars, dipVars, combatVars, supplyVars, turnVars, calls, timeouts, gameVars, workerVars>>

GetActionHistory ==
    /\ frame' = Holds("getActionHistory", getActionHistory(actionHistory), "get")
    /\ UNCHANGED <<pathVars, dipVars, combatVars, supplyVars, turnVars, calls, timeouts, gameVars, workerVars>>

\* the caller pushes an object of its own, pops, or replaces an element
EditReturnedList ==
    /\ calls < MaxCalls
    /\ frame.op = "holds"
    /\ \/ frame' = Holds(frame.accessor, Append(frame.returned, 0), "push")
       \/ /\ frame.returned # <<>>
          /\ frame' = Holds(frame.accessor, SubSeq(frame.returned, 1, Len(frame.returned) - 1), "pop")
       \/ \E i \in DOMAIN frame.returned :
             frame' = Holds(frame.accessor, [frame.returned EXCEPT ![i] = 0], "replace")
    /\ calls' = calls + 1
    /\ UNCHANGED <<pathVars, dipVars, combatVars, supplyVars, turnVars, timeouts, gameVars, workerVars>>

\* the caller assigns to a field of an element: returned[i].faction = f on a
\* base, returned[i].description = "edited" on an action
WriteReturnedElement ==
    /\ calls < MaxCalls
    /\ frame.op = "holds"
    /\ \E i \in DOMAIN frame.returned :
          /\ frame.returned[i] # 0
          /\ IF frame.accessor = "getActionHistory"
             THEN /\ actionHistory' = [actionHistory EXCEPT ![frame.returned[i]].description = "edited"]
                  /\ bases' = bases
             ELSE /\ \E faction \in Faction :
                        bases' = [bases EXCEPT ![frame.returned[i]].faction = faction]
                  /\ actionHistory' = actionHistory
    /\ frame' = Holds(frame.accessor, frame.returned, "write")
    /\ calls' = calls + 1
    /\ UNCHANGED <<pathVars, relations, actionListeners, notified, dipCall, units, hasSupply, hasDiplomacy, combatCall, combatResult, supplyVars, turnVars, timeouts, gameVars, workerVars>>

NextAccess ==
    \/ GetBases
    \/ GetBasesByFaction
    \/ GetActionHistory
    \/ ModifyRelation
    \/ EditReturnedList
    \/ WriteReturnedElement

SpecAccess == InitAccess /\ [][NextAccess]_vars

\* a step in which the caller uses the list it holds
UsesReturned == frame.op = "holds" /\ frame'.op = "holds" /\ frame'.use.kind # "get" /\ frame' # frame

\* C33: whatever a caller does with a list returned by getBases,
\* getBasesByFaction or getActionHistory (adding, removing or replacing
\* elements, or assigning through an element) leaves the bases and the
\* recorded actions, and so what every later accessor call returns, as they
\* were.
C33_ReturnedValuesAreDetached ==
    [][UsesReturned =>
          /\ bases' = bases
          /\ actionHistory' = actionHistory
          /\ \A faction \in Faction :
                Deref(getBasesByFactionRefs(bases', faction), bases') = getBasesByFaction(bases, faction)]_vars

\* the player's headquarters, which captureBase refuses to hand over, belongs
\* to the enemy after an assignment through getBases()[0]
C33_OwnerChangedThroughReturnedBase ==
    /\ frame.op = "holds"
    /\ frame.accessor = "getBases"
    /\ frame.use.kind = "write"
    /\ bases[1].id = "player-hq"
    /\ ~bases[1].capturable
    /\ bases[1].faction = "enemy"

\* a recorded action reads differently after an assignment through the list
\* getActionHistory returned
C33_RecordedActionChangedThroughReturned ==
    /\ frame.op = "holds"
    /\ frame.accessor = "getActionHistory"
    /\ frame.use.kind = "write"
    /\ dipCall.op = "modifyRelation"
    /\ Len(actionHistory) = 1
    /\ actionHistory[1].description = "edited"

\* edits of the returned list itself stay with the caller
ListEditsStayWithCaller ==
    [][(UsesReturned /\ frame'.use.kind \in {"push", "pop", "replace"}) =>
          /\ bases' = bases
          /\ actionHistory' = actionHistory
          /\ getBases(bases') = getBases(bases)
          /\ getActionHistory(actionHistory') = getActionHistory(actionHistory)]_vars

====
